---- MODULE Spec2Model ----
(***************************************************************************)
(* Verification model of scraper-acnestudios.                              *)
(*                                                                         *)
(*   SpecSync   SupabaseDB.sync_products / upsert_products (database.py)   *)
(*   SpecImage  image selection of scrape_product_details (acne_studios.py)*)
(*   SpecPrice  _extract_prices_with_currencies (acne_studios.py)          *)
(*                                                                         *)
(* Strings that the code inspects character by character (image URLs,      *)
(* price fragments) are sequences of one-character strings.                *)
(***************************************************************************)
EXTENDS Integers, Sequences, FiniteSets, TLC

VARIABLES
    \* ---- persistent store and one sync_products call (database.py) ----
    store,          \* rows of table 'products'
    pc,             \* position of the running process inside sync_products
    src,            \* argument `source` of the current call
    batch,          \* argument `products` of the current call
    result,         \* return value of the call: TRUE, FALSE or None
    upserted,       \* "none" | "ok" | "fail": outcome of the upsert store call
    deleteIssued,   \* TRUE once the delete store call of this call was sent
    pre,            \* store content when the current call started
    stale,          \* <<source, url>> of rows a crash between upsert and delete left un-retired
    \* ---- one scrape_product_details call, image part (acne_studios.py) ----
    all_images,     \* URLs gathered by the selectors, line 260-265
    image_urls,     \* candidate list after the skip-word filter, line 268-273
    main_image_url, \* canonical image or None
    alt_urls,       \* additional images
    detail,         \* "init" | "nofetch" | "none" (returned None) | "ok" (returned a dict)
    embCalls,       \* embedding functions called during the call
    emitted,        \* TRUE iff _extract_products_from_page appended the product
    image_embedding, \* local of scrape_product_details (line 301)
    info_embedding,  \* local of scrape_product_details (line 318)
    row_keys,       \* keys of the row _format_product_for_db builds for it
    emb_raised,     \* TRUE iff an embedding call raised (caught at line 337)
    \* ---- one _extract_prices_with_currencies call (acne_studios.py) ----
    els,            \* texts of the price elements in discovery order
    listing,        \* listing_price_text or None
    price_text,     \* returned value
    prev_text,      \* price_text of the previous call (for re-feeding)
    ppc,            \* "init" | "done" | "refed_detail" | "refed_listing"
    \* ---- one _determine_category_and_gender call (acne_studios.py) ----
    category_name,  \* argument: name of the configured category
    gender,         \* returned gender: "men", "women" or None
    category,       \* returned product category or None
    \* ---- the embeddings module (embeddings.py) ----
    env_model,      \* value of EMBEDDINGS_MODEL (os.getenv with its default)
    instance,       \* _embeddings_instance: NoInstance or a SigLIPEmbeddings
    call,           \* the last module-level call and what the world did to it
    embedding,      \* what the last get_image/get_text_embedding call returned
    batch_result,   \* what the last get_batch_embeddings call returned
    raised,         \* TRUE iff the last call raised to its caller
    \* ---- one scrape_category call (acne_studios.py) ----
    tiles,          \* the product containers of the fetched page, in page order
    thumbnails,     \* per tile: the listing image_url computed at line 143-164
    products,       \* what _extract_products_from_page returned
    unique_products, \* what scrape_category returned
    detail_fetches, \* the scrape_product_details calls made, in order
    lpc,            \* "init" | "done" | "nofetch"
    \* ---- one _parse_category call (acne_studios.py) ----
    breadcrumb_text, \* argument of the call
    bc_parts,       \* parts = re.split(r'[>/]', breadcrumb_text)
    parsed,         \* what the call returned
    \* ---- _format_product_for_db calls on one product (database.py) ----
    product,        \* argument of the calls
    row,            \* what the last call returned, as (key, value) pairs
    prev_row,       \* what the call before it returned
    \* ---- one run of the command line for the site (cli.py, base.py) ----
    site_pages,     \* per configured category: the tiles of its listing page
    all_products,   \* what scraper.run() returned
    sync,           \* args.sync
    cpc,            \* position of the process inside main(): "idle" | "start" |
                    \* "scraped" | "returned" | "exit_88" | "end"
    exit_status     \* exit status of the process, None while it runs

vars == <<store, pc, src, batch, result, upserted, deleteIssued, pre, stale,
          all_images, image_urls, main_image_url, alt_urls, detail, embCalls,
          emitted, image_embedding, info_embedding, row_keys, emb_raised,
          els, listing, price_text, prev_text, ppc,
          category_name, gender, category,
          env_model, instance, call, embedding, batch_result, raised,
          tiles, thumbnails, products, unique_products, detail_fetches, lpc,
          breadcrumb_text, bc_parts, parsed,
          product, row, prev_row,
          site_pages, all_products, sync, cpc, exit_status>>

syncVars  == <<store, pc, src, batch, result, upserted, deleteIssued, pre, stale>>
imageVars == <<all_images, image_urls, main_image_url, alt_urls, detail, embCalls, emitted,
              image_embedding, info_embedding, row_keys, emb_raised>>
priceVars == <<els, listing, price_text, prev_text, ppc>>
classifyVars == <<category_name, gender, category>>
embedVars == <<env_model, instance, call, embedding, batch_result, raised>>
listingVars == <<tiles, thumbnails, products, unique_products, detail_fetches, lpc>>
breadcrumbVars == <<breadcrumb_text, bc_parts, parsed>>
formatVars == <<product, row, prev_row>>
siteVars == <<site_pages, all_products, sync, cpc, exit_status>>
laterVars == <<breadcrumbVars, formatVars, siteVars>>

\* what the actions of one component leave alone
notSync     == <<imageVars, priceVars, classifyVars, embedVars, listingVars, laterVars>>
notImage    == <<syncVars, priceVars, classifyVars, embedVars, listingVars, laterVars>>
notPrice    == <<syncVars, imageVars, classifyVars, embedVars, listingVars, laterVars>>
notClassify == <<syncVars, imageVars, priceVars, embedVars, listingVars, laterVars>>
notEmbed    == <<syncVars, imageVars, priceVars, classifyVars, listingVars, laterVars>>
notListing  == <<syncVars, imageVars, priceVars, embedVars, laterVars>>
notBreadcrumb == <<syncVars, imageVars, priceVars, classifyVars, embedVars, listingVars,
                   formatVars, siteVars>>
notFormat == <<syncVars, imageVars, priceVars, classifyVars, embedVars, listingVars,
               breadcrumbVars, siteVars>>
notSite == <<syncVars, imageVars, priceVars, classifyVars, embedVars, listingVars,
             breadcrumbVars, formatVars>>

None == "None"

(***************************************************************************)
(* Generic sequence helpers                                                *)
(***************************************************************************)
Range(s) == {s[i] : i \in 1..Len(s)}

SeqsUpTo(S, n) == UNION {[1..k -> S] : k \in 0..n}

(***************************************************************************)
(* SyncEngine: database.py                                                 *)
(***************************************************************************)
MaxBatch == 2

Sources == {"acne_studios", "other"}

\* Detail URLs a listing of the site configured with source s can link to.
SiteUrls(s) == IF s = "acne_studios" THEN {"A", "B", "C"} ELSE {"A"}

\* A scraped product as ProductData.create_product builds it; `source` is the
\* site's configured source, product_url the absolute detail URL.
Product(s, u) == [source |-> s, product_url |-> u, title |-> "new"]

\* Batches scraper.run() can hand to sync_products for configured source s.
Batches(s) == SeqsUpTo({Product(s, u) : u \in SiteUrls(s)}, MaxBatch)

\* Rows earlier runs may have left in the table.
OldRows ==
    UNION {{[source |-> s, product_url |-> u, title |-> "old"] : u \in SiteUrls(s)}
           : s \in Sources}

FormatProductForDb(p) ==
    [source |-> p.source, product_url |-> p.product_url, title |-> p.title]

\* client.table('products').upsert(rows, on_conflict='source,product_url')
StoreUpsert(st, rows) ==
    {r \in st : ~\E n \in rows : n.source = r.source /\ n.product_url = r.product_url}
    \cup rows

\* Mutant: the delete call deletes nothing.
StoreDeleteNotIn_Keep(st, s, urls) == st

\* Mutant: `not_` is forgotten, the rows IN the scraped list are deleted.
StoreDeleteNotIn_In(st, s, urls) ==
    {r \in st : ~(r.source = s /\ r.product_url \in urls)}

\* Mutant: `.eq('source', s)` is forgotten, the delete spans every source.
StoreDeleteNotIn_AnySource(st, s, urls) ==
    {r \in st : r.product_url \in urls}

\* client.table('products').delete().eq('source', s).not_.in_('product_url', urls)
StoreDeleteNotIn(st, s, urls) ==
    {r \in st : ~(r.source = s /\ r.product_url \notin urls)}

ScrapedProductUrls(P) == {P[i].product_url : i \in 1..Len(P)} \ {None}

UrlsOf(st, s) == {r.product_url : r \in {x \in st : x.source = s}}

SyncInit ==
    /\ store \in SUBSET OldRows
    /\ pc = "idle"
    /\ src = None
    /\ batch = <<>>
    /\ result = None
    /\ upserted = "none"
    /\ deleteIssued = FALSE
    /\ pre = {}
    /\ stale = {}

\* Mutant: an empty scrape is treated as "the catalog is empty" and wipes the source.
SyncBegin_Wipe(s, P) ==
    /\ pc \in {"idle", "returned", "crashed"}
    /\ src' = s
    /\ batch' = P
    /\ pre' = store
    /\ upserted' = "none"
    /\ deleteIssued' = (P = <<>>)
    /\ IF P = <<>>
       THEN /\ pc' = "returned"
            /\ result' = TRUE
            /\ store' = {r \in store : r.source # s}
       ELSE /\ pc' = "upsert"
            /\ result' = None
            /\ store' = store
    /\ stale' = {k \in stale : k[2] \in UrlsOf(store, k[1])}
    /\ UNCHANGED notSync

\* A run of the process calls sync_products(s, P) once, after any earlier run
\* has returned or crashed.  Line 56-63: an empty batch returns True at once.
SyncBegin(s, P) ==
    /\ pc \in {"idle", "returned", "crashed"}
    /\ src' = s
    /\ batch' = P
    /\ pre' = store
    /\ upserted' = "none"
    /\ deleteIssued' = FALSE
    /\ IF P = <<>>
       THEN /\ pc' = "returned"
            /\ result' = TRUE
       ELSE /\ pc' = "upsert"
            /\ result' = None
    /\ stale' = {k \in stale : k[2] \in UrlsOf(store, k[1])}
    /\ UNCHANGED store
    /\ UNCHANGED notSync

\* upsert_products line 36-50 succeeded: rows written, sync goes on to line 74.
UpsertOk ==
    /\ pc = "upsert"
    /\ store' = StoreUpsert(store, {FormatProductForDb(batch[i]) : i \in 1..Len(batch)})
    /\ upserted' = "ok"
    /\ pc' = "delete"
    /\ UNCHANGED <<src, batch, result, deleteIssued, pre, stale>>
    /\ UNCHANGED notSync

\* Mutant: the return value of upsert_products is ignored.
UpsertFail_Ignored ==
    /\ pc = "upsert"
    /\ upserted' = "fail"
    /\ pc' = "delete"
    /\ UNCHANGED <<store, src, batch, result, deleteIssued, pre, stale>>
    /\ UNCHANGED notSync

\* upsert_products line 52-54 returned False: sync_products returns False, line 67-68.
UpsertFail ==
    /\ pc = "upsert"
    /\ upserted' = "fail"
    /\ result' = FALSE
    /\ pc' = "returned"
    /\ UNCHANGED <<store, src, batch, deleteIssued, pre, stale>>
    /\ UNCHANGED notSync

\* line 74-90: the delete call succeeded (or was skipped for want of URLs).
DeleteOk ==
    /\ pc = "delete"
    /\ LET scraped == ScrapedProductUrls(batch)
       IN  IF scraped # {}
           THEN /\ store' = StoreDeleteNotIn(store, src, scraped)
                /\ deleteIssued' = TRUE
           ELSE UNCHANGED <<store, deleteIssued>>
    /\ result' = TRUE
    /\ pc' = "returned"
    /\ UNCHANGED <<src, batch, upserted, pre, stale>>
    /\ UNCHANGED notSync

\* line 82 raised: caught at line 92-94, sync_products returns False.
DeleteFail ==
    /\ pc = "delete"
    /\ ScrapedProductUrls(batch) # {}
    /\ deleteIssued' = TRUE
    /\ result' = FALSE
    /\ pc' = "returned"
    /\ UNCHANGED <<store, src, batch, upserted, pre, stale>>
    /\ UNCHANGED notSync

\* The process dies inside sync_products; the store keeps what was written.
\* `stale` remembers the rows of the source a crash after the upsert left behind.
Crash ==
    /\ pc \in {"upsert", "delete"}
    /\ stale' = IF pc = "delete"
                THEN {k \in stale : k[1] # src}
                     \cup {<<src, u>> : u \in UrlsOf(store, src) \ ScrapedProductUrls(batch)}
                ELSE stale
    /\ pc' = "crashed"
    /\ UNCHANGED <<store, src, batch, result, upserted, deleteIssued, pre>>
    /\ UNCHANGED notSync

SyncNext ==
    \/ \E s \in Sources : \E P \in Batches(s) : SyncBegin(s, P)
    \/ UpsertOk
    \/ UpsertFail
    \/ DeleteOk
    \/ DeleteFail
    \/ Crash

\* embeddings.py line 231 and 236: no instance yet, EMBEDDINGS_MODEL unset
ModelBase  == "google/siglip-base-patch16-384"
ModelLarge == "google/siglip-large-patch16-384"
NoInstance == [id |-> 0, model_name |-> None, loaded |-> FALSE, loads |-> 0]
\* What the world does to one image URL: whether download_image returns an
\* image, and what the components of the model's output row for it are.
UrlGood == [download |-> TRUE,  fin |-> "finite"]
UrlDead == [download |-> FALSE, fin |-> "finite"]
UrlNaN  == [download |-> TRUE,  fin |-> "nan"]
UrlInf  == [download |-> TRUE,  fin |-> "inf"]

\* a call record: the function, its argument, and what the world does to it
\* (loadOk: from_pretrained succeeds; err: inference raises; fin: components
\* of the text features; exc: chunks whose inference raises)
CallOf(fn, u, text, urls, loadOk, err, fin, exc) ==
    [fn |-> fn, url |-> u, text |-> text, urls |-> urls, loadOk |-> loadOk,
     err |-> err, fin |-> fin, exc |-> exc]
NoCall == CallOf("none", UrlDead, <<>>, <<>>, TRUE, FALSE, "finite", {})
NoEmbedding == [kind |-> None, len |-> 0, fin |-> "finite", img |-> 0]
\* a returned list: the model's output row for image i, as it came out
Vec(n, fin, i) == [kind |-> "vec", len |-> n, fin |-> fin, img |-> i]
\* embeddings.py line 83, 139, 202: the literal every length check compares with
RequiredDim == 768

EmbedIdle ==
    /\ env_model = ModelBase
    /\ instance = NoInstance
    /\ call = NoCall
    /\ embedding = NoEmbedding
    /\ batch_result = <<>>
    /\ raised = FALSE

ImageIdle ==
    /\ all_images = <<>>
    /\ image_urls = <<>>
    /\ main_image_url = None
    /\ alt_urls = <<>>
    /\ detail = "init"
    /\ embCalls = {}
    /\ emitted = FALSE
    /\ image_embedding = NoEmbedding
    /\ info_embedding = NoEmbedding
    /\ row_keys = {}
    /\ emb_raised = FALSE

PriceIdle ==
    /\ els = <<>>
    /\ listing = <<"None">>
    /\ price_text = <<"None">>
    /\ prev_text = <<"None">>
    /\ ppc = "init"

ListingIdle ==
    /\ tiles = <<>>
    /\ thumbnails = <<>>
    /\ products = <<>>
    /\ unique_products = <<>>
    /\ detail_fetches = <<>>
    /\ lpc = "init"

ClassifyIdle ==
    /\ category_name = <<>>
    /\ gender = None
    /\ category = None

SyncIdle ==
    /\ store = {}
    /\ pc = "idle"
    /\ src = None
    /\ batch = <<>>
    /\ result = None
    /\ upserted = "none"
    /\ deleteIssued = FALSE
    /\ pre = {}
    /\ stale = {}

\* _parse_category has not been called
Pending == [kind |-> "pending", category |-> None, raw |-> <<>>]

BreadcrumbIdle ==
    /\ breadcrumb_text = <<>>
    /\ bc_parts = <<>>
    /\ parsed = Pending

\* Python values of a product dict or a row: str, None, bool, list
Str(x)  == [type |-> "str", text |-> x]
PyNone  == [type |-> "NoneType", text |-> <<>>]
PyFalse == [type |-> "bool", text |-> <<"False">>]
PyList(x) == [type |-> "list", text |-> <<x>>]

\* keys of the dict ProductData.create_product builds, updated with the
\* detail dict (base.py line 132-146, acne_studios.py line 323-335)
ProductKeys ==
    {"source", "external_id", "merchant_name", "product_url", "image_url", "brand",
     "title", "gender", "price", "currency", "size", "second_hand", "country",
     "category", "description", "additional_images", "image_embedding",
     "info_embedding"}

NoProduct == [k \in ProductKeys |-> PyNone]

FormatIdle ==
    /\ product = NoProduct
    /\ row = {}
    /\ prev_row = {}

SiteIdle ==
    /\ site_pages = <<>>
    /\ all_products = <<>>
    /\ sync = FALSE
    /\ cpc = "idle"
    /\ exit_status = None

\* the components no process of the specification touches
LaterIdle == BreadcrumbIdle /\ FormatIdle /\ SiteIdle

RestIdle == ClassifyIdle /\ EmbedIdle /\ ListingIdle /\ LaterIdle

SyncSpecInit == SyncInit /\ ImageIdle /\ PriceIdle /\ RestIdle

SpecSync == SyncSpecInit /\ [][SyncNext]_vars

(***************************************************************************)
(* DetailExtractor, image selection: acne_studios.py line 245-339          *)
(***************************************************************************)
MaxImgs == 3

\* s contains w as a contiguous substring (Python `w in s`, re.search of a literal)
Contains(s, w) ==
    \E i \in 1..(Len(s) - Len(w) + 1) : SubSeq(s, i, i + Len(w) - 1) = w

\* str.lower() on the characters the model uses
LowerChar(c) ==
    CASE c = "A" -> "a" [] c = "B" -> "b" [] c = "G" -> "g" [] c = "S" -> "s"
      [] c = "V" -> "v" [] c = "Y" -> "y" [] c = "K" -> "k" [] c = "M" -> "m"
      [] c = "W" -> "w" [] c = "C" -> "c" [] c = "P" -> "p" [] c = "H" -> "h"
      [] c = "X" -> "x" [] OTHER -> c

Lower(s) == [i \in 1..Len(s) |-> LowerChar(s[i])]

\* Image URLs a detail page can yield (after _extract_image_info / urljoin).
UrlY    == <<"a", "_", "Y", ".", "j", "p", "g">>
UrlB    == <<"b", "_", "B", ".", "j", "p", "g">>
UrlA    == <<"c", "_", "A", ".", "j", "p", "g">>
UrlWorn == <<"m", ".", "j", "p", "g">>
UrlYQ   == <<"d", "_", "Y", ".", "j", "p", "g", "?", "w">>
UrlSvg  == <<"S", "V", "G", "_", "Y", ".", "j", "p", "g">>

ImageUrlPool == {UrlY, UrlB, UrlA, UrlWorn, UrlYQ, UrlSvg}

SkipWords == {<<"i", "c", "o", "n">>, <<"l", "o", "g", "o">>,
              <<"a", "r", "r", "o", "w">>, <<"s", "v", "g">>}

\* line 260-265: gather over all selectors, keeping the first occurrence of a URL
RECURSIVE DedupeUrls(_)
DedupeUrls(raw) ==
    IF raw = <<>> THEN <<>>
    ELSE LET front == DedupeUrls(SubSeq(raw, 1, Len(raw) - 1))
             last  == raw[Len(raw)]
         IN  IF last \in Range(front) THEN front ELSE Append(front, last)

\* line 268-273: drop URLs containing icon, logo, arrow or svg (case-insensitive)
IsSkipped(u) == \E w \in SkipWords : Contains(Lower(u), w)

FilterImageUrls(imgs) == SelectSeq(imgs, LAMBDA u : ~IsSkipped(u))

\* line 285: re.search(r'_[YB]\.jpg', img_url)
ReSearchYB(u) ==
    \E c \in {"Y", "B"} : Contains(u, <<"_", c, ".", "j", "p", "g">>)

\* Mutant: the scan keeps the last match instead of breaking at the first.
PreferredImageUrl_Last(urls) ==
    IF \E i \in 1..Len(urls) : ReSearchYB(urls[i])
    THEN urls[CHOOSE i \in 1..Len(urls) :
                 /\ ReSearchYB(urls[i])
                 /\ \A j \in (i + 1)..Len(urls) : ~ReSearchYB(urls[j])]
    ELSE None

\* line 283-287: first URL in list order that matches, else None
RECURSIVE PreferredImageUrl(_)
PreferredImageUrl(urls) ==
    IF urls = <<>> THEN None
    ELSE IF ReSearchYB(Head(urls)) THEN Head(urls)
    ELSE PreferredImageUrl(Tail(urls))

\* line 293
OtherUrls(urls, preferred) == SelectSeq(urls, LAMBDA u : u # preferred)

\* Mutant: the permissive policy of earlier versions, first image as fallback.
DetailOutcome_Permissive(urls) ==
    IF urls # <<>>
    THEN LET preferred == PreferredImageUrl(urls)
             main == IF preferred # None THEN preferred ELSE urls[1]
         IN  [detail |-> "ok", main |-> main, alt |-> OtherUrls(urls, main),
              calls |-> {"image", "text"}]
    ELSE [detail |-> "none", main |-> None, alt |-> <<>>, calls |-> {"text"}]

\* line 275-339 for a fetched page whose candidate list is urls.
\*  - a preferred image exists: image embedding, text embedding, dict returned;
\*  - candidates but none preferred: return None at line 298;
\*  - no candidates: the block at 281-301 is skipped, the text embedding is
\*    computed (info_text holds at least the listing title), then line 332
\*    reads the never-assigned local image_embedding; the UnboundLocalError is
\*    caught at line 337 and None is returned.
DetailOutcome(urls) ==
    IF urls # <<>>
    THEN LET preferred == PreferredImageUrl(urls)
         IN  IF preferred # None
             THEN [detail |-> "ok", main |-> preferred,
                   alt |-> OtherUrls(urls, preferred), calls |-> {"image", "text"}]
             ELSE [detail |-> "none", main |-> None, alt |-> <<>>, calls |-> {}]
    ELSE [detail |-> "none", main |-> None, alt |-> <<>>, calls |-> {"text"}]

\* What a call of get_image_embedding / get_text_embedding does for the
\* caller: it returns a vector, returns None, or raises (load_model).
EmbeddingOutcomes == {"vec", "None", "raise"}
EmbeddingValue(o) == IF o = "vec" THEN Vec(RequiredDim, "finite", 0) ELSE NoEmbedding

\* line 300-318: the embedding calls the function gets to make, in order; a
\* raising image call leaves the text call unmade (handler of line 337)
CallsMade(out, imgOut) ==
    IF "image" \in out.calls /\ imgOut = "raise" THEN {"image"} ELSE out.calls

\* some call that was made raised
CallRaised(out, imgOut, txtOut) ==
    \/ "image" \in out.calls /\ imgOut = "raise"
    \/ "text" \in CallsMade(out, imgOut) /\ txtOut = "raise"

\* line 320-339: the dict is returned unless the function left earlier
DetailResult_RequireEmbeddings(out, imgOut, txtOut) ==
    IF out.detail = "ok" /\ imgOut = "vec" /\ txtOut = "vec"
    THEN "ok" ELSE "none"

DetailResult(out, imgOut, txtOut) ==
    IF out.detail = "ok" /\ ~CallRaised(out, imgOut, txtOut)
    THEN "ok" ELSE "none"

\* database.py line 122-131: _valid_embedding
ValidEmbedding(emb) ==
    IF emb.kind # "vec" THEN NoEmbedding
    ELSE IF emb.fin # "finite" THEN NoEmbedding
    ELSE emb

\* database.py line 137-158: keys of the formatted row of a product whose
\* detail dict holds these values; None values are removed at line 158
FormattedKeys(main, alt, imgEmb, txtEmb) ==
    {"id", "source", "product_url", "title", "metadata", "second_hand"}
    \cup (IF main # None THEN {"image_url"} ELSE {})
    \cup (IF alt # <<>> THEN {"additional_images"} ELSE {})
    \cup (IF ValidEmbedding(imgEmb) # NoEmbedding THEN {"image_embedding"} ELSE {})
    \cup (IF ValidEmbedding(txtEmb) # NoEmbedding THEN {"info_embedding"} ELSE {})

\* scrape_product_details for one tile (called from line 187), page fetched;
\* the caller appends the product only if the result is not None (line 192-198).
ScrapeProductDetails(raw, imgOut, txtOut) ==
    /\ detail = "init"
    /\ all_images' = DedupeUrls(raw)
    /\ image_urls' = FilterImageUrls(all_images')
    /\ LET out == DetailOutcome(image_urls')
       IN  /\ detail' = DetailResult(out, imgOut, txtOut)
           /\ main_image_url' = out.main
           /\ alt_urls' = out.alt
           /\ embCalls' = CallsMade(out, imgOut)
           /\ image_embedding' = IF "image" \in embCalls'
                                 THEN EmbeddingValue(imgOut) ELSE NoEmbedding
           /\ info_embedding' = IF "text" \in embCalls'
                                THEN EmbeddingValue(txtOut) ELSE NoEmbedding
           /\ emitted' = (detail' = "ok")
           /\ row_keys' = IF detail' = "ok"
                          THEN FormattedKeys(out.main, out.alt,
                                             image_embedding', info_embedding')
                          ELSE {}
           /\ emb_raised' = CallRaised(out, imgOut, txtOut)
    /\ UNCHANGED notImage

\* line 213-215: get_soup returned None, scrape_product_details returns None.
DetailFetchFailed ==
    /\ detail = "init"
    /\ all_images' = <<>>
    /\ image_urls' = <<>>
    /\ detail' = "nofetch"
    /\ main_image_url' = None
    /\ alt_urls' = <<>>
    /\ embCalls' = {}
    /\ emitted' = FALSE
    /\ image_embedding' = NoEmbedding
    /\ info_embedding' = NoEmbedding
    /\ row_keys' = {}
    /\ emb_raised' = FALSE
    /\ UNCHANGED notImage

\* line 113: the loop goes on to the next tile with fresh locals
NextTile ==
    /\ detail # "init"
    /\ all_images' = <<>>
    /\ image_urls' = <<>>
    /\ detail' = "init"
    /\ main_image_url' = None
    /\ alt_urls' = <<>>
    /\ embCalls' = {}
    /\ emitted' = FALSE
    /\ image_embedding' = NoEmbedding
    /\ info_embedding' = NoEmbedding
    /\ row_keys' = {}
    /\ emb_raised' = FALSE
    /\ UNCHANGED notImage

ImageNext ==
    \/ \E raw \in SeqsUpTo(ImageUrlPool, MaxImgs),
          imgOut \in EmbeddingOutcomes, txtOut \in EmbeddingOutcomes :
          ScrapeProductDetails(raw, imgOut, txtOut)
    \/ DetailFetchFailed
    \/ NextTile

ImageSpecInit == SyncIdle /\ ImageIdle /\ PriceIdle /\ RestIdle

SpecImage == ImageSpecInit /\ [][ImageNext]_vars

(***************************************************************************)
(* Claims about image selection (checked under SpecImage)                  *)
(***************************************************************************)
Letters == {"A", "B", "Y"}

\* the filename ends in _<single letter>.jpg
EndsInLetterJpg(u) ==
    /\ Len(u) >= 6
    /\ \E c \in Letters : SubSeq(u, Len(u) - 5, Len(u)) = <<"_", c, ".", "j", "p", "g">>

\* the URL contains _Y.jpg or _B.jpg
HasYBCode(u) ==
    \E i \in 1..(Len(u) - 5) :
        /\ u[i] = "_"
        /\ u[i + 1] \in {"Y", "B"}
        /\ <<u[i + 2], u[i + 3], u[i + 4], u[i + 5]>> = <<".", "j", "p", "g">>

Extracted == detail \in {"ok", "none"}

FirstIndex(urls, P(_)) == CHOOSE i \in 1..Len(urls) : P(urls[i]) /\ \A j \in 1..(i - 1) : ~P(urls[j])

Without(urls, i) == SubSeq(urls, 1, i - 1) \o SubSeq(urls, i + 1, Len(urls))

C6_NoProductOnlyImageDropped ==
    (Extracted /\ \A i \in 1..Len(image_urls) : ~HasYBCode(image_urls[i]))
    => /\ detail = "none"
       /\ main_image_url = None
       /\ ~emitted

\* Candidates exist, none is product-only, the product was dropped.
C6_Witness ==
    /\ detail = "none"
    /\ Len(image_urls) = 2
    /\ ~emitted

(***************************************************************************)
(* PriceNormalizer: acne_studios.py line 454-496                           *)
(***************************************************************************)
MaxEls == 2

MaxPriceTextLen == 50

\* Python None where a text is expected
NoText == <<"None">>

Digits  == {"0", "2", "4", "5"}
Uppers  == {"B", "C", "D", "E", "G", "K", "P", "R", "S", "U", "Z"}
Lowers  == {"d", "s", "u"}
Symbols == {"€", "£", "$"}

IsDigit(c)  == c \in Digits
IsSpace(c)  == c = " "
IsLetter(c) == c \in Uppers \cup Lowers
\* the character class [\d\s.,]
IsAmountChar(c) == IsDigit(c) \/ IsSpace(c) \/ c \in {".", ","}

UpperChar(c) == CASE c = "d" -> "D" [] c = "s" -> "S" [] c = "u" -> "U" [] OTHER -> c

\* Texts of price elements / listing price text a page can carry.
Frag400CZK == <<"4", "0", "0", " ", "C", "Z", "K">>
Frag500CZK == <<"5", "0", "0", " ", "C", "Z", "K">>
FragEur20  == <<"€", "2", "0">>
FragUsd20  == <<"$", "2", "0">>
Frag20USD  == <<"2", "0", " ", "U", "S", "D">>
Frag20usd  == <<"2", "0", " ", "u", "s", "d">>
FragGbp    == <<"2", ",", "5", "0", "0", ".", "5", "0", "£">>
FragBlank  == <<" ">>
FragLong   == [i \in 1..51 |-> IF i = 1 THEN "2"
                              ELSE IF i = 49 THEN "U"
                              ELSE IF i = 50 THEN "S"
                              ELSE IF i = 51 THEN "D" ELSE "0"]

FragmentPool == {Frag400CZK, Frag500CZK, FragEur20, FragUsd20, Frag20USD,
                 Frag20usd, FragGbp, FragBlank, FragLong}

\* extract_text strips the listing text; an empty one is passed on as falsy.
ListingPool == (FragmentPool \ {FragBlank}) \cup {NoText}

\* get_text(strip=True) of an element with one text node
RECURSIVE Strip(_)
Strip(t) ==
    IF t = <<>> THEN t
    ELSE IF IsSpace(Head(t)) THEN Strip(Tail(t))
    ELSE IF IsSpace(t[Len(t)]) THEN Strip(SubSeq(t, 1, Len(t) - 1))
    ELSE t

\* last index of the maximal run of [\d\s.,] characters that starts at i
RECURSIVE RunEnd(_, _)
RunEnd(t, i) ==
    IF i < Len(t) /\ IsAmountChar(t[i + 1]) THEN RunEnd(t, i + 1) ELSE i

\* first index >= i that holds no whitespace (Len(t) + 1 if none)
RECURSIVE SkipSpaces(_, _)
SkipSpaces(t, i) ==
    IF i <= Len(t) /\ IsSpace(t[i]) THEN SkipSpaces(t, i + 1) ELSE i

\* length of the match of ([A-Z]{3}|€|£|\$|...) at position i under re.I, 0 if none
CurrencyLenAt(t, i) ==
    IF i + 2 <= Len(t) /\ IsLetter(t[i]) /\ IsLetter(t[i + 1]) /\ IsLetter(t[i + 2]) THEN 3
    ELSE IF i <= Len(t) /\ t[i] \in Symbols THEN 1
    ELSE 0

\* re.sub(r'[\s,]', '', group)
StripAmount(g) == SelectSeq(g, LAMBDA c : ~IsSpace(c) /\ c # ",")

\* .upper().replace('€', 'EUR').replace('£', 'GBP').replace('$', 'USD')
CurrencyCode(g) ==
    IF g = <<"€">> THEN <<"E", "U", "R">>
    ELSE IF g = <<"£">> THEN <<"G", "B", "P">>
    ELSE IF g = <<"$">> THEN <<"U", "S", "D">>
    ELSE [i \in 1..Len(g) |-> UpperChar(g[i])]

\* line 469-474: keys of all non-overlapping matches of
\* (\d[\d\s.,]*)\s*(currency) found from position i on, left to right
RECURSIVE AmountThenCurrency(_, _)
AmountThenCurrency(t, i) ==
    IF i > Len(t) THEN <<>>
    ELSE IF IsDigit(t[i])
         THEN LET e == RunEnd(t, i)
                  n == CurrencyLenAt(t, e + 1)
              IN  IF n > 0
                  THEN <<StripAmount(SubSeq(t, i, e)) \o CurrencyCode(SubSeq(t, e + 1, e + n))>>
                       \o AmountThenCurrency(t, e + n + 1)
                  ELSE AmountThenCurrency(t, i + 1)
         ELSE AmountThenCurrency(t, i + 1)

\* line 479-482: keys of all non-overlapping matches of
\* ([A-Z]{3}|€|£|\$)\s*(\d[\d\s.,]*) found from position i on
RECURSIVE CurrencyThenAmount(_, _)
CurrencyThenAmount(t, i) ==
    IF i > Len(t) THEN <<>>
    ELSE LET n == CurrencyLenAt(t, i)
             j == SkipSpaces(t, i + n)
         IN  IF n > 0 /\ j <= Len(t) /\ IsDigit(t[j])
             THEN LET e == RunEnd(t, j)
                  IN  <<StripAmount(SubSeq(t, j, e)) \o CurrencyCode(SubSeq(t, i, i + n - 1))>>
                      \o CurrencyThenAmount(t, e + 1)
             ELSE CurrencyThenAmount(t, i + 1)

\* Mutant: the `key not in seen` test is dropped.
AppendUnseen_NoDedupe(parts, keys) == parts \o keys

\* line 475-477 / 483-485: append every key not seen before, in order
RECURSIVE AppendUnseen(_, _)
AppendUnseen(parts, keys) ==
    IF keys = <<>> THEN parts
    ELSE AppendUnseen(IF Head(keys) \in Range(parts) THEN parts
                      ELSE Append(parts, Head(keys)),
                      Tail(keys))

\* line 465-485 for one element: both scans, unless the text is empty or too long
ElementKeys(text) ==
    LET t == Strip(text)
    IN  IF t = <<>> \/ Len(t) > MaxPriceTextLen THEN <<>>
        ELSE AmountThenCurrency(t, 1) \o CurrencyThenAmount(t, 1)

\* line 463-485: all elements in discovery order
RECURSIVE DetailParts(_)
DetailParts(texts) ==
    IF texts = <<>> THEN <<>>
    ELSE AppendUnseen(DetailParts(SubSeq(texts, 1, Len(texts) - 1)),
                      ElementKeys(texts[Len(texts)]))

\* line 487-494: re.search finds the first amount-then-currency match only
ListingKeys(text) ==
    IF text = NoText \/ text = <<>> THEN <<>>
    ELSE LET all == AmountThenCurrency(text, 1)
         IN  IF all = <<>> THEN <<>> ELSE <<all[1]>>

PriceParts(texts, listingText) ==
    AppendUnseen(DetailParts(texts), ListingKeys(listingText))

\* ','.join(price_parts)
RECURSIVE Join(_)
Join(parts) ==
    IF parts = <<>> THEN <<>>
    ELSE IF Len(parts) = 1 THEN parts[1]
    ELSE parts[1] \o <<",">> \o Join(Tail(parts))

\* line 496
ExtractPricesWithCurrencies(texts, listingText) ==
    LET parts == PriceParts(texts, listingText)
    IN  IF parts # <<>> THEN Join(parts) ELSE NoText

\* scrape_product_details line 240 on a fetched page
ExtractPrices(texts, listingText) ==
    /\ ppc = "init"
    /\ els' = texts
    /\ listing' = listingText
    /\ price_text' = ExtractPricesWithCurrencies(texts, listingText)
    /\ prev_text' = NoText
    /\ ppc' = "done"
    /\ UNCHANGED notPrice

\* The returned price_text is the text of the only price element of a page.
RefeedAsDetail ==
    /\ ppc = "done"
    /\ price_text # NoText
    /\ els' = <<price_text>>
    /\ listing' = NoText
    /\ prev_text' = price_text
    /\ price_text' = ExtractPricesWithCurrencies(els', listing')
    /\ ppc' = "refed_detail"
    /\ UNCHANGED notPrice

\* The returned price_text is the listing price text of a page without price elements.
RefeedAsListing ==
    /\ ppc = "done"
    /\ price_text # NoText
    /\ els' = <<>>
    /\ listing' = price_text
    /\ prev_text' = price_text
    /\ price_text' = ExtractPricesWithCurrencies(els', listing')
    /\ ppc' = "refed_listing"
    /\ UNCHANGED notPrice

\* The call is over; the next product starts with fresh locals.
PriceReturn ==
    /\ ppc \in {"done", "refed_detail", "refed_listing"}
    /\ els' = <<>>
    /\ listing' = NoText
    /\ price_text' = NoText
    /\ prev_text' = NoText
    /\ ppc' = "init"
    /\ UNCHANGED notPrice

PriceNext ==
    \/ \E texts \in SeqsUpTo(FragmentPool, MaxEls) :
         \E listingText \in ListingPool : ExtractPrices(texts, listingText)
    \/ RefeedAsDetail
    \/ RefeedAsListing
    \/ PriceReturn

PriceSpecInit == SyncIdle /\ ImageIdle /\ PriceIdle /\ RestIdle

SpecPrice == PriceSpecInit /\ [][PriceNext]_vars

(***************************************************************************)
(* Claims about the SyncEngine (checked under SpecSync)                    *)
(***************************************************************************)
BatchRows == {FormatProductForDb(batch[i]) : i \in 1..Len(batch)}

SyncSucceeded == pc = "returned" /\ result = TRUE

\* C1: after sync_products(source, P) returned success for a non-empty batch
\* in which every product has a product_url, the stored rows of `source` are
\* exactly the rows of the products in P, whatever the store held before.
C1_SyncReplacesSource ==
    (/\ SyncSucceeded
     /\ batch # <<>>
     /\ \A i \in 1..Len(batch) : batch[i].product_url # None)
    => /\ {r \in store : r.source = src} = BatchRows
       /\ UrlsOf(store, src) = ScrapedProductUrls(batch)

\* Scenario D: the store held {A, B, C} for the source, the batch is {A, B}.
C1_Witness ==
    /\ SyncSucceeded
    /\ UrlsOf(pre, src) = {"A", "B", "C"}
    /\ ScrapedProductUrls(batch) = {"A", "B"}
    /\ UrlsOf(store, src) = {"A", "B"}

\* C2: sync_products(source, []) issues no upsert and no delete, leaves every
\* stored row unchanged and returns success.
C2_EmptyBatchNoEffect ==
    (pc = "returned" /\ batch = <<>>)
    => /\ result = TRUE
       /\ upserted = "none"
       /\ ~deleteIssued
       /\ store = pre

\* An empty batch arrived while the store held rows of that source.
C2_Witness ==
    /\ pc = "returned"
    /\ batch = <<>>
    /\ UrlsOf(store, src) # {}

\* C3: a failed upsert makes sync_products return failure without a delete;
\* the delete of a call is issued only after the upsert of that call succeeded.
C3_DeleteOnlyAfterUpsert ==
    /\ deleteIssued => upserted = "ok"
    /\ upserted = "fail" => /\ pc = "returned"
                            /\ result = FALSE
                            /\ store = pre

\* The upsert failed while the store held rows a delete would have removed.
C3_Witness ==
    /\ pc = "returned"
    /\ upserted = "fail"
    /\ result = FALSE
    /\ UrlsOf(store, src) \ ScrapedProductUrls(batch) # {}

StaleOfCall == {k \in stale : k[1] = src /\ k[2] \notin ScrapedProductUrls(batch)}

\* C4 as stated: upsert and delete are two store calls; a crash between them
\* leaves stale rows, and the next call for the source that completes (with
\* whatever the full catalog is, the empty one included) removes them all.
C4_Original ==
    /\ (pc = "crashed" /\ upserted = "ok") => store = StoreUpsert(pre, BatchRows)
    /\ SyncSucceeded => \A k \in StaleOfCall : k[2] \notin UrlsOf(store, src)

\* C4 amended: ... the next call for the source that completes with a
\* non-empty full catalog removes every stale row.
C4_CrashThenNextSyncRetires ==
    /\ (pc = "crashed" /\ upserted = "ok") => store = StoreUpsert(pre, BatchRows)
    /\ (SyncSucceeded /\ batch # <<>>)
       => \A k \in StaleOfCall : k[2] \notin UrlsOf(store, src)

\* A crash left a row un-retired and a later successful call removed it.
C4_Witness ==
    /\ SyncSucceeded
    /\ batch # <<>>
    /\ \E k \in StaleOfCall : k[2] \in UrlsOf(pre, src) /\ k[2] \notin UrlsOf(store, src)

(***************************************************************************)
(* Claims about the PriceNormalizer (checked under SpecPrice)              *)
(***************************************************************************)
\* text.split(',')
RECURSIVE SplitAtCommas(_)
SplitAtCommas(t) ==
    IF \E i \in 1..Len(t) : t[i] = ","
    THEN LET i == CHOOSE k \in 1..Len(t) : t[k] = "," /\ \A j \in 1..(k - 1) : t[j] # ","
         IN  <<SubSeq(t, 1, i - 1)>> \o SplitAtCommas(SubSeq(t, i + 1, Len(t)))
    ELSE <<t>>

TokensOf(text) == IF text = NoText THEN <<>> ELSE SplitAtCommas(text)

\* <amount><three-letter code>: digits and periods led by a digit, then the code
IsPriceToken(tok) ==
    /\ Len(tok) >= 4
    /\ IsDigit(tok[1])
    /\ \A i \in 1..(Len(tok) - 3) : IsDigit(tok[i]) \/ tok[i] = "."
    /\ \A i \in (Len(tok) - 2)..Len(tok) : tok[i] \in Uppers

CodeOf(tok) == SubSeq(tok, Len(tok) - 2, Len(tok))

IsPrefixOf(a, b) == Len(a) <= Len(b) /\ SubSeq(b, 1, Len(a)) = a

Tok400CZK == <<"4", "0", "0", "C", "Z", "K">>
Tok20EUR  == <<"2", "0", "E", "U", "R">>
Tok20USD  == <<"2", "0", "U", "S", "D">>

\* the token a fragment states, read in either form (amount first, or currency first)
EitherFormToken(text) ==
    IF text = NoText THEN <<>>
    ELSE LET all == AmountThenCurrency(text, 1) \o CurrencyThenAmount(text, 1)
         IN  IF all = <<>> THEN <<>> ELSE <<all[1]>>

\* C7: price_text lists the detail-page tokens first, in discovery order,
\* followed by the token of the listing text, which is recognised in both
\* <amount><currency> and <currency><amount> form; detail "400 CZK" with
\* listing "€20" yields "400CZK,20EUR".
C7_ListingTokenInEitherForm ==
    ppc = "done"
    => /\ IsPrefixOf(DetailParts(els), TokensOf(price_text))
       /\ \A i \in 1..Len(EitherFormToken(listing)) :
              EitherFormToken(listing)[i] \in Range(TokensOf(price_text))
       /\ (els = <<Frag400CZK>> /\ listing = FragEur20)
          => price_text = Tok400CZK \o <<",">> \o Tok20EUR

\* C8 as stated: price_text, when not None, is a comma-joined list of
\* <amount><code> tokens in which no currency code occurs twice.
C8_Original ==
    price_text # NoText
    => LET toks == TokensOf(price_text)
       IN  /\ \A i \in 1..Len(toks) : IsPriceToken(toks[i])
           /\ \A i, j \in 1..Len(toks) : i # j => CodeOf(toks[i]) # CodeOf(toks[j])

\* C8 amended: price_text, when not None, is a comma-joined list of
\* <amount><code> tokens in which no (amount, code) token occurs twice.
C8_NoDuplicateToken ==
    price_text # NoText
    => LET toks == TokensOf(price_text)
       IN  /\ toks # <<>>
           /\ \A i \in 1..Len(toks) : IsPriceToken(toks[i])
           /\ \A i, j \in 1..Len(toks) : i # j => toks[i] # toks[j]

\* Two amounts in one currency, and a listing text repeating the first of them.
C8_Witness ==
    /\ ppc = "done"
    /\ els = <<Frag400CZK, Frag500CZK>>
    /\ listing = Frag400CZK
    /\ Len(TokensOf(price_text)) = 2

\* C9: feeding a produced price_text back in as the only fragment, as a price
\* element or as the listing text, yields the same price_text.
C9_IdempotentOnOwnOutput ==
    ppc \in {"refed_detail", "refed_listing"} => price_text = prev_text

Fragments == Range(els) \cup {listing}

Occurrences(toks, tok) == Cardinality({i \in 1..Len(toks) : toks[i] = tok})

\* C10: "$20" and "20 USD" both normalize to the token 20USD, which appears
\* once in price_text when both are present; no token at all gives None,
\* never an empty string.
C10_SymbolAndCodeSameToken ==
    ppc = "done"
    => /\ \A f \in {FragUsd20, Frag20USD} :
              (\/ (els = <<f>> /\ listing = NoText)
               \/ (els = <<>> /\ listing = f))
              => price_text = Tok20USD
       /\ {FragUsd20, Frag20USD} \subseteq Fragments
              => Occurrences(TokensOf(price_text), Tok20USD) = 1
       /\ price_text # <<>>

(***************************************************************************)
(* CategoryClassifier: acne_studios.py line 24-67                          *)
(***************************************************************************)
MaxWords == 3

\* Words a configured category name is made of.
WordMen   == <<"M", "e", "n">>
WordWomen == <<"W", "o", "m", "e", "n", "'", "s">>
WordWoman == <<"W", "o", "m", "a", "n">>
WordKnit  == <<"K", "n", "i", "t">>
WordBags  == <<"B", "a", "g", "s">>
WordClothing == <<"C", "l", "o", "t", "h", "i", "n", "g">>

NameWords == {WordMen, WordWomen, WordWoman, WordKnit, WordBags, WordClothing}

\* the words joined with single spaces
RECURSIVE JoinWords(_)
JoinWords(ws) ==
    IF ws = <<>> THEN <<>>
    ELSE IF Len(ws) = 1 THEN ws[1]
    ELSE ws[1] \o <<" ">> \o JoinWords(Tail(ws))

CategoryNames == {JoinWords(ws) : ws \in SeqsUpTo(NameWords, MaxWords)}

\* line 33-44: keyword rules in the order they are tried
CategoryRules ==
    << [category |-> "sweaters",    keys |-> {<<"s", "w", "e", "a", "t", "e", "r">>, <<"k", "n", "i", "t">>}],
       [category |-> "hoodies",     keys |-> {<<"h", "o", "o", "d", "i", "e">>, <<"h", "o", "o", "d", "y">>}],
       [category |-> "jackets",     keys |-> {<<"j", "a", "c", "k", "e", "t">>, <<"c", "o", "a", "t">>}],
       [category |-> "footwear",    keys |-> {<<"s", "h", "o", "e">>, <<"b", "o", "o", "t">>, <<"s", "n", "e", "a", "k", "e", "r">>, <<"f", "o", "o", "t", "w", "e", "a", "r">>}],
       [category |-> "bags",        keys |-> {<<"b", "a", "g">>}],
       [category |-> "accessories", keys |-> {<<"s", "c", "a", "r", "f">>, <<"a", "c", "c", "e", "s", "s", "o", "r">>, <<"h", "a", "t">>, <<"b", "e", "l", "t">>}] >>

RuleMatches(k, lower) == \E w \in CategoryRules[k].keys : Contains(lower, w)

\* _map_to_product_category, line 24-45
MapToProductCategory(name) ==
    IF name = <<>> THEN None
    ELSE LET lower == Lower(name)
         IN  IF \E k \in 1..Len(CategoryRules) : RuleMatches(k, lower)
             THEN CategoryRules[CHOOSE k \in 1..Len(CategoryRules) :
                                   /\ RuleMatches(k, lower)
                                   /\ \A j \in 1..(k - 1) : ~RuleMatches(j, lower)].category
             ELSE None

\* line 56-64: the tests look for 'men' and for 'woman'
GenderOf(name) ==
    LET category_lower == Lower(name)
    IN  IF Contains(category_lower, <<"m", "e", "n">>) /\ ~Contains(category_lower, <<"w", "o", "m", "a", "n">>)
        THEN "men"
        ELSE IF Contains(category_lower, <<"w", "o", "m", "a", "n">>) THEN "women"
        ELSE None

\* _determine_category_and_gender(category_name), called at line 75
DetermineCategoryAndGender ==
    /\ gender = "pending"
    /\ gender' = GenderOf(category_name)
    /\ category' = MapToProductCategory(category_name)
    /\ UNCHANGED <<category_name, notClassify>>

ClassifyNext == DetermineCategoryAndGender

\* the call is about to be made with one of the category names
ClassifyInit ==
    /\ category_name \in CategoryNames
    /\ gender = "pending"
    /\ category = "pending"

ClassifySpecInit ==
    SyncIdle /\ ImageIdle /\ PriceIdle /\ ClassifyInit /\ EmbedIdle /\ ListingIdle /\ LaterIdle

SpecClassify == ClassifySpecInit /\ [][ClassifyNext]_vars

(***************************************************************************)
(* Claims about the CategoryClassifier (checked under SpecClassify)        *)
(***************************************************************************)
\* C11: a category name containing "women" is classified women; one
\* containing "men" and not "women" is classified men; otherwise None.
\* "Women's Clothing" is women, never men.
C11_GenderOfCategoryName ==
    gender # "pending"
    => LET lower == Lower(category_name)
       IN  gender = IF Contains(lower, <<"w", "o", "m", "e", "n">>) THEN "women"
                    ELSE IF Contains(lower, <<"m", "e", "n">>) THEN "men"
                    ELSE None

(***************************************************************************)
(* EmbeddingGenerator: embeddings.py                                       *)
(***************************************************************************)
MaxInstances == 3   \* SigLIPEmbeddings objects constructed in one behaviour
MaxSeqUrls == 2     \* URLs of a batch call inside a sequence of calls
MaxUrls == 9        \* URLs of a batch call made as the first call

BatchSize == 8      \* line 163: batch_size

Models == {ModelBase, ModelLarge}

\* width of image_embeds / text features of the checkpoint (line 3, line 76)
ModelDim(model_name) == IF model_name = ModelBase THEN 768 ELSE 1024

UrlKinds == {UrlGood, UrlDead, UrlNaN, UrlInf}
BatchUrlKinds == {UrlGood, UrlDead, UrlNaN}

TextPool == { <<>>, <<" ">>, <<"T">>, <<" ", "T", " ">> }
TextOutputs == {"finite", "nan", "inf"}


\* line 236-239: the instance the module-level function delegates to
EnsureInstance_Always ==
    [id |-> instance.id + 1, model_name |-> env_model,
     loaded |-> FALSE, loads |-> 0]

EnsureInstance ==
    IF instance = NoInstance \/ instance.model_name # env_model
    THEN [id |-> instance.id + 1, model_name |-> env_model,
          loaded |-> FALSE, loads |-> 0]
    ELSE instance

\* a constructor call is still within the bound of the behaviour
MayConstruct == EnsureInstance.id <= MaxInstances

\* load_model, line 26-38, when from_pretrained succeeds
LoadModel(inst) ==
    IF inst.loaded THEN inst
    ELSE [inst EXCEPT !.loaded = TRUE, !.loads = @ + 1]

\* line 60-61, 110-111, 159-160: does `self.load_model()` raise
LoadRaises(inst, loadOk) == ~inst.loaded /\ ~loadOk

\* line 79-95 and 137-148: the checks on a single output of width n
ValidateSingle_AnyLength(n, fin) ==
    IF fin # "finite" THEN NoEmbedding ELSE Vec(n, fin, 0)

ValidateSingle(n, fin) ==
    IF n # RequiredDim THEN NoEmbedding
    ELSE IF fin # "finite" THEN NoEmbedding
    ELSE Vec(n, fin, 0)

\* SigLIPEmbeddings.get_image_embedding after load_model, line 63-99
ImageEmbeddingOf(inst, u, err) ==
    IF ~u.download THEN NoEmbedding
    ELSE IF err THEN NoEmbedding
    ELSE ValidateSingle(ModelDim(inst.model_name), u.fin)

\* SigLIPEmbeddings.get_text_embedding after load_model, line 113-152
TextEmbeddingOf(inst, fin, err) ==
    IF err THEN NoEmbedding
    ELSE ValidateSingle(ModelDim(inst.model_name), fin)

\* module-level get_image_embedding(image_url), line 233-240
GetImageEmbedding(u, loadOk, err) ==
    /\ MayConstruct
    /\ call' = CallOf("image", u, <<>>, <<>>, loadOk, err, u.fin, {})
    /\ IF LoadRaises(EnsureInstance, loadOk)
       THEN /\ instance' = EnsureInstance
            /\ raised' = TRUE
            /\ embedding' = NoEmbedding
       ELSE /\ instance' = LoadModel(EnsureInstance)
            /\ raised' = FALSE
            /\ embedding' = ImageEmbeddingOf(EnsureInstance, u, err)
    /\ batch_result' = <<>>
    /\ UNCHANGED <<env_model, notEmbed>>
\* line 107: `not text or not str(text).strip()`
IsBlankText(text) == text = <<>> \/ Strip(text) = <<>>

\* module-level get_text_embedding(text), line 242-248
GetTextEmbedding(text, loadOk, err, fin) ==
    /\ MayConstruct
    /\ call' = CallOf("text", UrlDead, text, <<>>, loadOk, err, fin, {})
    /\ IF IsBlankText(text)
       THEN /\ instance' = EnsureInstance
            /\ raised' = FALSE
            /\ embedding' = NoEmbedding
       ELSE IF LoadRaises(EnsureInstance, loadOk)
       THEN /\ instance' = EnsureInstance
            /\ raised' = TRUE
            /\ embedding' = NoEmbedding
       ELSE /\ instance' = LoadModel(EnsureInstance)
            /\ raised' = FALSE
            /\ embedding' = TextEmbeddingOf(EnsureInstance, fin, err)
    /\ batch_result' = <<>>
    /\ UNCHANGED <<env_model, notEmbed>>

Min(a, b) == IF a < b THEN a ELSE b
Nones(n) == [k \in 1..n |-> NoEmbedding]

\* line 209-220: the result list of one chunk whose inference succeeded with
\* at least two valid images, one entry per URL of the chunk
ChunkResults(urls, lo, hi, dim) ==
    [k \in 1..(hi - lo + 1) |->
        LET u == urls[lo + k - 1]
        IN  IF ~u.download THEN NoEmbedding
            ELSE IF u.fin # "finite" THEN NoEmbedding
            ELSE Vec(dim, u.fin, lo + k - 1)]

\* SigLIPEmbeddings.get_batch_embeddings, the loop of line 165-226 from the
\* chunk starting at index lo (1-based), with `embeddings` so far
RECURSIVE BatchLoop(_, _, _, _, _)
BatchLoop(urls, lo, embeddings, dim, exc) ==
    IF lo > Len(urls) THEN embeddings                       \* line 228
    ELSE LET hi == Min(lo + BatchSize - 1, Len(urls))       \* line 166
             n == hi - lo + 1
             chunk == ((lo - 1) \div BatchSize) + 1
             valid == {j \in lo..hi : urls[j].download}     \* line 175
             next(res) == BatchLoop(urls, hi + 1, embeddings \o res, dim, exc)
         IN  IF valid = {} THEN next(Nones(n))              \* line 177-179
             ELSE IF chunk \in exc THEN next(Nones(n))      \* line 224-226
             \* line 202-204: `return [None] * len(batch_urls)`
             ELSE IF dim # RequiredDim THEN Nones(n)
             \* line 196 squeezes a single row to one dimension; line 211
             \* then yields a float, iterating it at line 213 raises, line 224
             ELSE IF Cardinality(valid) = 1 THEN next(Nones(n))
             ELSE next(ChunkResults(urls, lo, hi, dim))

\* module-level get_batch_embeddings(image_urls), line 251-258
GetBatchEmbeddings(urls, loadOk, exc) ==
    /\ MayConstruct
    /\ call' = CallOf("batch", UrlDead, <<>>, urls, loadOk, FALSE, "finite", exc)
    /\ IF LoadRaises(EnsureInstance, loadOk)
       THEN /\ instance' = EnsureInstance
            /\ raised' = TRUE
            /\ batch_result' = <<>>
       ELSE /\ instance' = LoadModel(EnsureInstance)
            /\ raised' = FALSE
            /\ batch_result' = BatchLoop(urls, 1, <<>>,
                                         ModelDim(EnsureInstance.model_name), exc)
    /\ embedding' = NoEmbedding
    /\ UNCHANGED <<env_model, notEmbed>>

\* os.environ['EMBEDDINGS_MODEL'] = m (test_embeddings.py line 5)
SetEmbeddingsModel(m) ==
    /\ m # env_model
    /\ env_model' = m
    /\ UNCHANGED <<instance, call, embedding, batch_result, raised, notEmbed>>

\* lists made of at most three runs of equal URLs, n URLs at most
Rep(x, k) == [i \in 1..k |-> x]
RunLists(n) ==
    { Rep(a, i) \o Rep(b, j) \o Rep(c, k) :
        <<a, b, c, i, j, k>> \in
            { t \in BatchUrlKinds \X BatchUrlKinds \X BatchUrlKinds
                    \X (0..n) \X (0..n) \X (0..n) : t[4] + t[5] + t[6] <= n } }

ChunkNumbers(n) == 1..(((n - 1) \div BatchSize) + 1)

\* any sequence of calls and changes of EMBEDDINGS_MODEL
EmbedNext ==
    \/ \E m \in Models : SetEmbeddingsModel(m)
    \/ \E u \in UrlKinds, loadOk \in BOOLEAN, err \in BOOLEAN :
          GetImageEmbedding(u, loadOk, err)
    \/ \E text \in TextPool, loadOk \in BOOLEAN, err \in BOOLEAN, fin \in TextOutputs :
          GetTextEmbedding(text, loadOk, err, fin)
    \/ \E urls \in SeqsUpTo(BatchUrlKinds, MaxSeqUrls), loadOk \in BOOLEAN,
          exc \in SUBSET ChunkNumbers(MaxSeqUrls) :
          GetBatchEmbeddings(urls, loadOk, exc)

EmbedSpecInit ==
    SyncIdle /\ ImageIdle /\ PriceIdle /\ ClassifyIdle /\ EmbedIdle /\ ListingIdle /\ LaterIdle

SpecEmbed == EmbedSpecInit /\ [][EmbedNext]_vars

\* one call made by a fresh process whose EMBEDDINGS_MODEL is either model
FirstCallInit ==
    /\ env_model \in Models
    /\ instance = NoInstance
    /\ call = NoCall
    /\ embedding = NoEmbedding
    /\ batch_result = <<>>
    /\ raised = FALSE

FirstCallNext ==
    /\ call = NoCall
    /\ \/ \E u \in UrlKinds, loadOk \in BOOLEAN, err \in BOOLEAN :
             GetImageEmbedding(u, loadOk, err)
       \/ \E text \in TextPool, loadOk \in BOOLEAN, err \in BOOLEAN, fin \in TextOutputs :
             GetTextEmbedding(text, loadOk, err, fin)
       \/ \E urls \in RunLists(MaxUrls), loadOk \in BOOLEAN,
             exc \in SUBSET ChunkNumbers(MaxUrls) :
             GetBatchEmbeddings(urls, loadOk, exc)

FirstCallSpecInit ==
    SyncIdle /\ ImageIdle /\ PriceIdle /\ ClassifyIdle /\ FirstCallInit /\ ListingIdle /\ LaterIdle

SpecFirstCall == FirstCallSpecInit /\ [][FirstCallNext]_vars
(***************************************************************************)
(* Claims about the EmbeddingGenerator                                     *)
(***************************************************************************)
ChunkOf(j) == ((j - 1) \div BatchSize) + 1
ChunkPositions(urls, c) ==
    {j \in 1..Len(urls) : ChunkOf(j) = c}
ValidIn(urls, c) == {j \in ChunkPositions(urls, c) : urls[j].download}
ConfiguredDim == ModelDim(instance.model_name)
Returned(fn) == call.fn = fn /\ ~raised

\* C12: every vector returned by get_image_embedding, get_text_embedding or
\* as an element of get_batch_embeddings has exactly the required length and
\* only finite components; a model output of the wrong length or with
\* NaN/Infinity gives None.
C12_OnlyValidVectors ==
    /\ embedding.kind = "vec"
       => /\ embedding.len = RequiredDim
          /\ embedding.len = ConfiguredDim
          /\ embedding.fin = "finite"
    /\ \A j \in 1..Len(batch_result) :
          batch_result[j].kind = "vec"
          => /\ batch_result[j].len = RequiredDim
             /\ batch_result[j].len = ConfiguredDim
             /\ batch_result[j].fin = "finite"
    /\ Returned("image") /\ (ConfiguredDim # RequiredDim \/ call.url.fin # "finite")
       => embedding = NoEmbedding
    /\ Returned("text") /\ (ConfiguredDim # RequiredDim \/ call.fin # "finite")
       => embedding = NoEmbedding
    /\ Returned("batch")
       => \A j \in 1..Len(batch_result) :
             (ConfiguredDim # RequiredDim \/ call.urls[j].fin # "finite")
             => batch_result[j] = NoEmbedding

\* a batch that returns a vector next to a None for a NaN output, after a
\* single-image call is covered by the same formula
C12_Witness ==
    /\ Returned("batch")
    /\ \E j \in 1..Len(batch_result) : batch_result[j].kind = "vec"
    /\ \E j \in 1..Len(batch_result) :
          /\ call.urls[j].download
          /\ call.urls[j].fin = "nan"
          /\ batch_result[j] = NoEmbedding

\* C13: the required length is the dimensionality of the configured model:
\* whatever EMBEDDINGS_MODEL is, a downloaded image whose model output is
\* finite yields a vector of the model's dimensionality, not None.
C13_ConfiguredModelYieldsVector ==
    /\ Returned("image")
    /\ call.url.download
    /\ ~call.err
    /\ call.url.fin = "finite"
    => /\ embedding.kind = "vec"
       /\ embedding.len = ConfiguredDim

\* C14: get_batch_embeddings returns a list as long as its input in which
\* position j is None when the download of URL j failed and the embedding of
\* image j when download and inference succeeded, also in a chunk with
\* exactly one valid image.  (Stated for a model of the required width.)
C14_BatchIsPositional ==
    Returned("batch") /\ ConfiguredDim = RequiredDim
    => /\ Len(batch_result) = Len(call.urls)
       /\ \A j \in 1..Len(batch_result) :
             LET u == call.urls[j]
             IN  /\ ~u.download => batch_result[j] = NoEmbedding
                 /\ u.download /\ ChunkOf(j) \notin call.exc /\ u.fin = "finite"
                    => batch_result[j] = Vec(ConfiguredDim, "finite", j)

\* the chunk's processing fails as a whole: no download succeeded, the
\* inference raised, the width is not the required one, or the single row
\* of the chunk could not be iterated
ChunkFailed(c) ==
    \/ ValidIn(call.urls, c) = {}
    \/ c \in call.exc
    \/ ConfiguredDim # RequiredDim
    \/ Cardinality(ValidIn(call.urls, c)) = 1

\* C15: a failure of one chunk makes only that chunk's positions None: the
\* list keeps the input's length, and every position of a chunk that did
\* not fail holds that URL's own result.
C15_ChunkFailureIsLocal ==
    Returned("batch")
    => /\ Len(batch_result) = Len(call.urls)
       /\ \A j \in 1..Len(batch_result) :
             LET u == call.urls[j]
             IN  IF ChunkFailed(ChunkOf(j)) \/ ~u.download \/ u.fin # "finite"
                 THEN batch_result[j] = NoEmbedding
                 ELSE batch_result[j] = Vec(ConfiguredDim, "finite", j)

\* C16: the shared instance is created by the first call, replaced only by
\* a call made while EMBEDDINGS_MODEL differs from its model_name, reused
\* otherwise, and a loaded model is never loaded again.
C16_InstanceLifecycle ==
    [][ /\ instance'.id # instance.id
           => /\ instance = NoInstance \/ instance.model_name # env_model
              /\ instance'.id = instance.id + 1
              /\ instance'.model_name = env_model
        /\ call' # call
           => /\ instance' # NoInstance
              /\ instance # NoInstance /\ instance.model_name = env_model
                 => instance'.id = instance.id
        /\ instance'.id = instance.id /\ instance.loaded => instance' = instance
        /\ instance'.loads <= 1 ]_vars

\* the instance was replaced after a change of EMBEDDINGS_MODEL, and the
\* replacement has loaded its model
C16_Witness ==
    /\ instance.id >= 2
    /\ instance.loaded
    /\ instance.model_name = env_model
    /\ call.fn # "none"

\* C17: get_image_embedding and get_text_embedding never raise to their
\* caller, whatever fails (the loading of the model included).
C17_FailsClosed ==
    call.fn \in {"image", "text"} => ~raised

(***************************************************************************)
(* Claims about embeddings of a scraped product (checked under SpecImage)  *)
(***************************************************************************)
EmbeddingKeys == {"image_embedding", "info_embedding"}

\* the embedding fields of the record whose call came back with None
NoneEmbeddingKeys ==
    (IF image_embedding = NoEmbedding THEN {"image_embedding"} ELSE {})
    \cup (IF info_embedding = NoEmbedding THEN {"info_embedding"} ELSE {})

\* both embedding calls of the product were made and both returned
EmbeddingsReturned == embCalls = {"image", "text"} /\ ~emb_raised

\* the keys of the row of the same product with both vectors present
KeysWithBothVectors ==
    FormattedKeys(main_image_url, alt_urls,
                  EmbeddingValue("vec"), EmbeddingValue("vec"))

\* C18: when the image or the text embedding of a product comes back None,
\* scrape_product_details still returns the record, the product is kept, and
\* its row lacks exactly the embedding fields that are None.
C18_NoneEmbeddingKeepsRecord ==
    EmbeddingsReturned
    => /\ detail = "ok"
       /\ emitted
       /\ row_keys = KeysWithBothVectors \ NoneEmbeddingKeys

C18_Witness ==
    /\ EmbeddingsReturned
    /\ image_embedding = NoEmbedding
    /\ info_embedding # NoEmbedding
    /\ detail = "ok"
    /\ "image_embedding" \notin row_keys
    /\ "info_embedding" \in row_keys

(***************************************************************************)
(* CategoryListing: scrape_category and _extract_products_from_page,       *)
(* acne_studios.py line 69-204 and 426-437                                 *)
(***************************************************************************)
MaxTiles == 3

BaseUrl == <<"h", "t", "t", "p", "s", ":", "/", "/", "h">>       \* site_config['base_url'] (line 21)

\* href values of a tile's product link (<<>>: no link)
LinkA1x  == <<"/", "x", "/", "A", "1", ".", "h", "t", "m", "l">>
LinkA1y  == <<"/", "y", "/", "A", "1", ".", "h", "t", "m", "l">>
LinkB2   == <<"/", "x", "/", "B", "-", "2", ".", "h", "t", "m", "l">>
LinkPath == <<"/", "x", "/", "c">>
LinkRoot == <<"/">>
LinkSlug == <<"/", "x", "/", "c", ".", "h", "t", "m", "l">>

\* attribute values of a tile's <img> (<<>>: attribute absent or empty)
ImgReal        == <<"/", "a", ".", "j", "p", "g">>
ImgOther       == <<"/", "b", ".", "j", "p", "g">>
ImgPlaceholder == <<"/", "P", "l", "a", "c", "e", "h", "o", "l", "d", "e", "r", ".", "g", "i", "f">>
ImgDataUri     == <<"d", "a", "t", "a", ":", "i", "m", "a", "g", "e", "/", "g", "i", "f", ";", "b", "a", "s", "e", "6", "4", ",", "R", "0">>

ImgOf(ds, dl, do, sr) ==
    [has_img |-> TRUE, data_src |-> ds, data_lazy_src |-> dl,
     data_original |-> do, src |-> sr]
NoImg == [has_img |-> FALSE, data_src |-> <<>>, data_lazy_src |-> <<>>,
          data_original |-> <<>>, src |-> <<>>]

\* a product container: its link, its title (by selector, by data-ga4-item),
\* its <img>, and what scrape_product_details makes of its detail page
\* (detail_ok: a dict is returned; main: that dict's image_url)
Tile(link, title, ga4, img, detail_ok, main) ==
    [link |-> link, title |-> title, ga4 |-> ga4, img |-> img,
     detail_ok |-> detail_ok, main |-> main]

TilePool ==
    { Tile(LinkA1x, <<"T">>, <<>>, ImgOf(ImgReal, <<>>, <<>>, ImgOther), TRUE, UrlY),
      Tile(LinkA1y, <<"U">>, <<>>, ImgOf(ImgPlaceholder, <<>>, <<>>, ImgReal), TRUE, UrlB),
      Tile(LinkB2, <<>>, <<"G">>, ImgOf(<<>>, ImgDataUri, ImgReal, <<>>), TRUE, UrlY),
      Tile(LinkB2, <<"T">>, <<>>, ImgOf(<<>>, <<>>, <<>>, ImgDataUri), FALSE, <<>>),
      Tile(LinkPath, <<"T">>, <<>>, ImgOf(<<>>, <<>>, ImgReal, ImgOther), TRUE, UrlB),
      Tile(LinkRoot, <<"T">>, <<>>, NoImg, TRUE, UrlY),
      Tile(LinkSlug, <<"T">>, <<>>, NoImg, TRUE, UrlB),
      Tile(<<>>, <<"T">>, <<>>, ImgOf(ImgReal, <<>>, <<>>, <<>>), TRUE, UrlY),
      Tile(LinkA1x, <<>>, <<>>, ImgOf(ImgReal, <<>>, <<>>, <<>>), TRUE, UrlY) }

Pages == SeqsUpTo(TilePool, MaxTiles)

StartsWith(s, w) == Len(w) <= Len(s) /\ SubSeq(s, 1, Len(w)) = w

\* urljoin(self.base_url, u) for an absolute URL or an absolute path
UrlJoin(base, u) ==
    IF StartsWith(u, <<"h", "t", "t", "p">>) \/ StartsWith(u, <<"d", "a", "t", "a", ":">>) THEN u ELSE base \o u

\* the characters of [A-Z0-9-]
IdChars ==
    {"A", "B", "C", "D", "E", "F", "G", "H", "I", "J", "K", "L", "M", "N", "O",
     "P", "Q", "R", "S", "T", "U", "V", "W", "X", "Y", "Z", "0", "1", "2", "3",
     "4", "5", "6", "7", "8", "9", "-"}

\* last index of the run of IdChars that starts after index i (i if none)
RECURSIVE IdRunEnd(_, _)
IdRunEnd(s, i) ==
    IF i < Len(s) /\ s[i + 1] \in IdChars THEN IdRunEnd(s, i + 1) ELSE i

\* r'/([A-Z0-9-]+)\.html' matches with its slash at index i
HtmlIdAt(s, i) ==
    /\ s[i] = "/"
    /\ IdRunEnd(s, i) > i
    /\ SubSeq(s, IdRunEnd(s, i) + 1, IdRunEnd(s, i) + 5) = <<".", "h", "t", "m", "l">>

\* urlparse(url).path of a URL made by UrlJoin with BaseUrl
UrlPath(url) ==
    IF StartsWith(url, BaseUrl) THEN SubSeq(url, Len(BaseUrl) + 1, Len(url)) ELSE url

\* str.strip('/')
RECURSIVE StripSlashes(_)
StripSlashes(s) ==
    IF s = <<>> THEN s
    ELSE IF Head(s) = "/" THEN StripSlashes(Tail(s))
    ELSE IF s[Len(s)] = "/" THEN StripSlashes(SubSeq(s, 1, Len(s) - 1))
    ELSE s

\* _extract_external_id, line 426-437
ExtractExternalId(product_url) ==
    IF \E i \in 1..Len(product_url) : HtmlIdAt(product_url, i)
    THEN LET i == CHOOSE k \in 1..Len(product_url) :
                      /\ HtmlIdAt(product_url, k)
                      /\ \A j \in 1..(k - 1) : ~HtmlIdAt(product_url, j)
         IN  SubSeq(product_url, i + 1, IdRunEnd(product_url, i))
    ELSE LET path == StripSlashes(UrlPath(product_url))
         IN  [k \in 1..Len(path) |-> IF path[k] = "/" THEN "-" ELSE path[k]]

\* line 122-137: the title by selector, else item_name of data-ga4-item
TitleOf(t) == IF t.title # <<>> THEN t.title ELSE t.ga4

\* line 154: skip placeholder/base64 images
IsPlaceholder(u) == StartsWith(u, <<"d", "a", "t", "a", ":">>) \/ Contains(Lower(u), <<"p", "l", "a", "c", "e", "h", "o", "l", "d", "e", "r">>)

\* line 143-164: the listing image_url of a tile (<<>>: None)
ListingImageUrl(img) ==
    IF ~img.has_img THEN <<>>
    ELSE LET first == IF img.data_src # <<>> THEN img.data_src
                      ELSE IF img.data_lazy_src # <<>> THEN img.data_lazy_src
                      ELSE IF img.data_original # <<>> THEN img.data_original
                      ELSE img.src
         IN  IF first # <<>> /\ IsPlaceholder(first) THEN <<>>
             ELSE IF first # <<>> THEN UrlJoin(BaseUrl, first)
             ELSE <<>>

\* line 116-141: the tile has a link and a title, so line 143 is reached
ReachesImage_LinkOnly(t) == t.link # <<>>

ReachesImage(t) == t.link # <<>> /\ TitleOf(t) # <<>>

\* line 166-193: the product of tile i of the page; update() at line 197
\* replaces the listing image_url by the detail page's
ProductOf(t, i, g, c) ==
    [tile |-> i,
     external_id |-> ExtractExternalId(UrlJoin(BaseUrl, t.link)),
     product_url |-> UrlJoin(BaseUrl, t.link),
     title |-> TitleOf(t),
     image_url |-> t.main,
     gender |-> g,
     category |-> c]

\* line 193-196 and 200-202: `continue` after a tile whose details are None
\* or whose extraction raised; rest is what the later tiles give
AfterSkippedTile_Abort(rest) == <<>>

AfterSkippedTile(rest) == rest

\* _extract_products_from_page, line 102-204, from tile i on
RECURSIVE ExtractProductsFromPage(_, _, _, _)
ExtractProductsFromPage(page, i, g, c) ==
    IF i > Len(page) THEN <<>>
    ELSE LET t == page[i]
             rest == ExtractProductsFromPage(page, i + 1, g, c)
         IN  IF ReachesImage(t) /\ t.detail_ok
             THEN <<ProductOf(t, i, g, c)>> \o rest
             ELSE AfterSkippedTile(rest)

\* line 187-191: the scrape_product_details calls of one page, in tile order
RECURSIVE DetailFetches(_, _)
DetailFetches(page, i) ==
    IF i > Len(page) THEN <<>>
    ELSE LET t == page[i]
             product_url == UrlJoin(BaseUrl, t.link)
             rest == DetailFetches(page, i + 1)
         IN  IF ReachesImage(t)
             THEN <<[tile |-> i, product_url |-> product_url,
                     external_id |-> ExtractExternalId(product_url)]>> \o rest
             ELSE rest

\* line 91: the test that lets a product into unique_products
KeepsProduct_All(product_id, seen_ids) == product_id # <<>>

KeepsProduct(product_id, seen_ids) ==
    product_id # <<>> /\ product_id \notin seen_ids

\* line 87-93
RECURSIVE UniqueProducts(_, _)
UniqueProducts(ps, seen_ids) ==
    IF ps = <<>> THEN <<>>
    ELSE LET product_id == Head(ps).external_id
         IN  IF KeepsProduct(product_id, seen_ids)
             THEN <<Head(ps)>> \o UniqueProducts(Tail(ps), seen_ids \cup {product_id})
             ELSE UniqueProducts(Tail(ps), seen_ids)

\* names of configured categories a page is scraped for
ListingCategoryNames == { WordMen, JoinWords(<<WordWoman, WordKnit>>) }

\* scrape_category, line 69-100, the page fetched
ScrapeCategory(name, page) ==
    /\ lpc = "init"
    /\ category_name' = name
    /\ gender' = GenderOf(name)
    /\ category' = MapToProductCategory(name)
    /\ tiles' = page
    /\ thumbnails' = [i \in 1..Len(page) |->
                        IF ReachesImage(page[i])
                        THEN [reached |-> TRUE, image_url |-> ListingImageUrl(page[i].img)]
                        ELSE [reached |-> FALSE, image_url |-> <<>>]]
    /\ products' = ExtractProductsFromPage(page, 1, gender', category')
    /\ unique_products' = UniqueProducts(products', {})
    /\ detail_fetches' = DetailFetches(page, 1)
    /\ lpc' = "done"
    /\ UNCHANGED notListing

\* line 81-84: get_soup failed, scrape_category returns []
CategoryFetchFailed(name) ==
    /\ lpc = "init"
    /\ category_name' = name
    /\ gender' = GenderOf(name)
    /\ category' = MapToProductCategory(name)
    /\ lpc' = "nofetch"
    /\ UNCHANGED <<tiles, thumbnails, products, unique_products, detail_fetches, notListing>>

ListingNext ==
    \/ /\ lpc = "init"
       /\ \E name \in ListingCategoryNames, page \in Pages : ScrapeCategory(name, page)
    \/ \E name \in ListingCategoryNames : CategoryFetchFailed(name)

ListingSpecInit ==
    SyncIdle /\ ImageIdle /\ PriceIdle /\ ClassifyIdle /\ EmbedIdle /\ ListingIdle /\ LaterIdle

SpecListing == ListingSpecInit /\ [][ListingNext]_vars

(***************************************************************************)
(* Claims about the CategoryListing (checked under SpecListing)            *)
(***************************************************************************)
\* C19: scrape_category returns at most one entry per external_id; of the
\* products sharing an external_id the one of the first tile in page order
\* is kept, and the kept entries are in the order of their first occurrence.
C19_FirstOccurrencePerExternalId ==
    lpc = "done"
    => /\ \A i, j \in 1..Len(unique_products) :
             unique_products[i].external_id = unique_products[j].external_id => i = j
       /\ \A i \in 1..Len(unique_products) :
             /\ \E k \in 1..Len(products) : products[k] = unique_products[i]
             /\ \A k \in 1..Len(products) :
                   products[k].external_id = unique_products[i].external_id
                   => unique_products[i].tile <= products[k].tile
       /\ \A i, j \in 1..Len(unique_products) :
             i < j => unique_products[i].tile < unique_products[j].tile
       /\ \A k \in 1..Len(products) :
             products[k].external_id # <<>>
             => \E i \in 1..Len(unique_products) :
                   unique_products[i].external_id = products[k].external_id

\* two tiles with different product URLs share an external_id; the first is
\* kept and a later product with another id follows it
C19_Witness ==
    /\ lpc = "done"
    /\ Len(products) = 3
    /\ products[1].external_id = products[2].external_id
    /\ products[1].product_url # products[2].product_url
    /\ Len(unique_products) = 2
    /\ unique_products[1] = products[1]
    /\ unique_products[2] = products[3]

\* _extract_image_info's chain (line 401-405): the first of the four
\* attributes whose value is present, is no data-URI and no placeholder
FirstUsableAttribute(img) ==
    LET usable(u) == u # <<>> /\ ~IsPlaceholder(u)
    IN  IF ~img.has_img THEN <<>>
        ELSE IF usable(img.data_src) THEN img.data_src
        ELSE IF usable(img.data_lazy_src) THEN img.data_lazy_src
        ELSE IF usable(img.data_original) THEN img.data_original
        ELSE IF usable(img.src) THEN img.src
        ELSE <<>>

\* C20: the thumbnail of a listing tile is the first of data-src,
\* data-lazy-src, data-original, src that is present and neither a data-URI
\* nor a placeholder; an unusable earlier attribute does not end the chain.
C20_ThumbnailChainContinues ==
    lpc = "done"
    => \A i \in 1..Len(tiles) :
          thumbnails[i].reached
          => LET u == FirstUsableAttribute(tiles[i].img)
             IN  thumbnails[i].image_url =
                    IF u = <<>> THEN <<>> ELSE UrlJoin(BaseUrl, u)

\* the CODE of a URL that ends in /CODE.html, CODE made of [A-Z0-9-] (<<>>
\* when the URL does not end that way)
TrailingCode(url) ==
    LET e == Len(url) - 5
        starts == {k \in 1..(e - 1) :
                      /\ url[k] = "/"
                      /\ \A j \in (k + 1)..e : url[j] \in IdChars}
    IN  IF e >= 2 /\ SubSeq(url, e + 1, Len(url)) = <<".", "h", "t", "m", "l">> /\ starts # {}
        THEN SubSeq(url, (CHOOSE k \in starts : TRUE) + 1, e)
        ELSE <<>>

\* C21: every entry scrape_category returns has a non-empty title,
\* product_url and external_id; the external_id is determined by the
\* product_url alone and is the CODE of a trailing /CODE.html; a tile
\* without a link, or without a title from the selector or data-ga4-item,
\* gives no entry.
C21_EntriesIdentified ==
    lpc = "done"
    => /\ \A i \in 1..Len(unique_products) :
             LET p == unique_products[i]
             IN  /\ p.title # <<>>
                 /\ p.product_url # <<>>
                 /\ p.external_id # <<>>
                 /\ tiles[p.tile].link # <<>>
                 /\ tiles[p.tile].title # <<>> \/ tiles[p.tile].ga4 # <<>>
                 /\ TrailingCode(p.product_url) # <<>>
                    => p.external_id = TrailingCode(p.product_url)
       /\ \A i, j \in 1..Len(products) :
             products[i].product_url = products[j].product_url
             => products[i].external_id = products[j].external_id

\* Scenario A next to tiles that give no entry: a tile with its title in
\* data-ga4-item only yields the CODE of its link; a tile without a link, one
\* without a title and one whose external_id is empty are on the same page
C21_Witness ==
    /\ lpc = "done"
    /\ \E i \in 1..Len(unique_products) :
          /\ tiles[unique_products[i].tile].title = <<>>
          /\ unique_products[i].external_id = <<"B", "-", "2">>
    /\ \E k \in 1..Len(tiles) : ~ReachesImage(tiles[k])
    /\ Len(unique_products) < Len(tiles)

\* C22: a tile whose detail fetch fails or whose extraction raises is the
\* only one skipped: scrape_category returns, the later tiles are processed
\* and every product whose extraction succeeded is in the result (as the
\* entry of its external_id).
C22_FailedTileAloneSkipped ==
    lpc = "done"
    => /\ Len(thumbnails) = Len(tiles)
       /\ \A k \in 1..Len(tiles) :
             LET succeeded == ReachesImage(tiles[k]) /\ tiles[k].detail_ok
             IN  /\ succeeded <=> \E i \in 1..Len(products) : products[i].tile = k
                 /\ succeeded
                      /\ ExtractExternalId(UrlJoin(BaseUrl, tiles[k].link)) # <<>>
                    => \E i \in 1..Len(unique_products) :
                          unique_products[i].external_id
                             = ExtractExternalId(UrlJoin(BaseUrl, tiles[k].link))

\* a tile whose detail fetch failed is followed by a tile that is returned
C22_Witness ==
    /\ lpc = "done"
    /\ \E k \in 1..Len(tiles) :
          /\ ReachesImage(tiles[k])
          /\ ~tiles[k].detail_ok
          /\ \E i \in 1..Len(unique_products) : unique_products[i].tile > k

\* C28 (as the claim states it): within one scrape_category call
\* scrape_product_details, and with it the embedding calls, runs at most once
\* per distinct external_id, also when several tiles show the same product.
C28_OneDetailFetchPerExternalId ==
    lpc = "done"
    => \A i, j \in 1..Len(detail_fetches) :
          detail_fetches[i].external_id = detail_fetches[j].external_id => i = j

(***************************************************************************)
(* Further claims about the ImageSelector (checked under SpecImage)        *)
(***************************************************************************)
\* C29 (as the claim states it): for a product dropped because it has no
\* canonical image, the empty candidate list included, neither
\* get_image_embedding nor get_text_embedding is called.
C29_NoEmbeddingCallsForDropped ==
    (detail = "none" /\ PreferredImageUrl(image_urls) = None) => embCalls = {}

(***************************************************************************)
(* Further claims about the SyncEngine (checked under SpecSync)            *)
(***************************************************************************)
\* C30: sync_products(source, P) leaves every stored row of another source
\* as it was before the call: none is deleted, none is modified, whatever the
\* batch and the prior store content.
C30_OtherSourcesUntouched ==
    pc # "idle"
    => {r \in store : r.source # src} = {r \in pre : r.source # src}

\* a completed sync whose delete removed a row of its own source while a row
\* of another source, whose product_url was not scraped either, is in the store
C30_Witness ==
    /\ pc = "returned"
    /\ result = TRUE
    /\ deleteIssued
    /\ \E r \in pre : r.source = src /\ r \notin store
                      /\ r.product_url \notin ScrapedProductUrls(batch)
    /\ \E r \in store : r.source # src /\ r.product_url \notin ScrapedProductUrls(batch)

(***************************************************************************)
(* Breadcrumb category: acne_studios.py line 439-452                       *)
(***************************************************************************)
MaxSegments == 3

\* Segments a breadcrumb text is made of, with the blanks around them.
SegHome     == <<"H", "o", "m", "e", " ">>
SegAcne     == <<" ", "A", "c", "n", "e", " ", "S", "t", "u", "d", "i", "o", "s", " ">>
SegKnitBags == <<" ", "K", "n", "i", "t", " ", "B", "a", "g", "s">>
SegBags     == <<"B", "a", "g", "s">>
SegMen      == <<" ", "M", "e", "n", " ">>
SegXS       == <<"X", "S">>
SegEmpty    == <<>>

SegPool == {SegHome, SegAcne, SegKnitBags, SegBags, SegMen, SegXS, SegEmpty}

Separators == {">", "/"}

\* the segments written one after the other, seps[i] after segment i
RECURSIVE JoinSegments(_, _)
JoinSegments(segs, seps) ==
    IF Len(segs) = 1 THEN segs[1]
    ELSE segs[1] \o <<seps[1]>> \o JoinSegments(Tail(segs), Tail(seps))

\* .breadcrumb texts a detail page can carry (line 237 passes only non-empty
\* ones; the function itself also takes the empty one)
BreadcrumbTexts ==
    {<<>>} \cup
    {JoinSegments(segs, seps) :
        segs \in SeqsUpTo(SegPool, MaxSegments) \ {<<>>},
        seps \in [1..(MaxSegments - 1) -> Separators]}

\* re.split(r'[>/]', text)
RECURSIVE ReSplit(_)
ReSplit(text) ==
    LET cuts == {i \in 1..Len(text) : text[i] \in Separators}
    IN  IF cuts = {} THEN <<text>>
        ELSE LET i == CHOOSE c \in cuts : \A d \in cuts : c <= d
             IN  <<SubSeq(text, 1, i - 1)>> \o ReSplit(SubSeq(text, i + 1, Len(text)))

SkippedNames == {<<"h", "o", "m", "e">>, <<"a", "c", "n", "e", " ", "s", "t", "u", "d", "i", "o", "s">>}

\* line 447: the test on the stripped part
Qualifies_AnyLength(part) == part # <<>> /\ Lower(part) \notin SkippedNames

Qualifies(part) ==
    part # <<>> /\ Len(part) > 2 /\ Lower(part) \notin SkippedNames

\* line 445-451: for part in reversed(parts), from index i down
RECURSIVE ScanParts(_, _)
ScanParts(ps, i) ==
    IF i = 0 THEN [kind |-> "none", category |-> None, raw |-> <<>>]
    ELSE LET part == Strip(ps[i])
         IN  IF Qualifies(part)
             THEN LET mapped == MapToProductCategory(part)
                  IN  IF mapped # None
                      THEN [kind |-> "mapped", category |-> mapped, raw |-> <<>>]
                      ELSE [kind |-> "raw", category |-> None, raw |-> part]
             ELSE ScanParts(ps, i - 1)

\* _parse_category(breadcrumb_text), line 439-452
ParseCategory ==
    /\ parsed = Pending
    /\ IF breadcrumb_text = <<>>
       THEN /\ bc_parts' = <<>>
            /\ parsed' = [kind |-> "none", category |-> None, raw |-> <<>>]
       ELSE /\ bc_parts' = ReSplit(breadcrumb_text)
            /\ parsed' = ScanParts(bc_parts', Len(bc_parts'))
    /\ UNCHANGED breadcrumb_text
    /\ UNCHANGED notBreadcrumb

BreadcrumbNext == ParseCategory

BreadcrumbInit ==
    /\ breadcrumb_text \in BreadcrumbTexts
    /\ bc_parts = <<>>
    /\ parsed = Pending

BreadcrumbSpecInit ==
    SyncIdle /\ ImageIdle /\ PriceIdle /\ ClassifyIdle /\ EmbedIdle /\ ListingIdle
    /\ BreadcrumbInit /\ FormatIdle /\ SiteIdle

SpecBreadcrumb == BreadcrumbSpecInit /\ [][BreadcrumbNext]_vars

(***************************************************************************)
(* Claims about the breadcrumb category (checked under SpecBreadcrumb)     *)
(***************************************************************************)
RuleOrder == <<"sweaters", "hoodies", "jackets", "footwear", "bags", "accessories">>

\* the text with its separators taken out
Unseparated(text) == SelectSeq(text, LAMBDA c : c \notin Separators)

RECURSIVE Concat(_)
Concat(ss) == IF ss = <<>> THEN <<>> ELSE Head(ss) \o Concat(Tail(ss))

\* indices of the segments that are longer than 2 and are not a skipped name
Remaining ==
    {i \in 1..Len(bc_parts) :
        /\ Len(Strip(bc_parts[i])) > 2
        /\ Lower(Strip(bc_parts[i])) # <<"h", "o", "m", "e">>
        /\ Lower(Strip(bc_parts[i])) # <<"a", "c", "n", "e", " ", "s", "t", "u", "d", "i", "o", "s">>}

\* C25: _parse_category splits the breadcrumb on '>' and '/', scans the
\* segments from the last to the first, skips those of length <= 2 and the
\* names 'home' and 'acne studios', and for the first remaining segment
\* returns the category of the first keyword rule that matches (sweaters,
\* hoodies, jackets, footwear, bags, accessories) or the segment text itself
\* when none matches; it returns None when no segment remains.
C25_LastQualifyingSegment ==
    parsed # Pending
    => /\ [k \in 1..Len(CategoryRules) |-> CategoryRules[k].category] = RuleOrder
       /\ breadcrumb_text # <<>>
          => /\ Len(bc_parts) = 1 + Len(breadcrumb_text) - Len(Unseparated(breadcrumb_text))
             /\ Concat(bc_parts) = Unseparated(breadcrumb_text)
       /\ Remaining = {} => parsed.kind = "none"
       /\ Remaining # {}
          => LET i == CHOOSE r \in Remaining : \A q \in Remaining : q <= r
                 lower == Lower(Strip(bc_parts[i]))
                 hits == {k \in 1..Len(CategoryRules) : RuleMatches(k, lower)}
             IN  /\ hits = {} => parsed.kind = "raw" /\ parsed.raw = Strip(bc_parts[i])
                 /\ hits # {}
                    => /\ parsed.kind = "mapped"
                       /\ parsed.category
                            = RuleOrder[CHOOSE k \in hits : \A h \in hits : k <= h]

\* a segment matching two rules is reached after a two-letter segment was
\* skipped, with 'Home' in front: the first rule's category is returned
C25_Witness ==
    /\ parsed.kind = "mapped"
    /\ parsed.category = "sweaters"
    /\ Len(bc_parts) = 3
    /\ Lower(Strip(bc_parts[1])) = <<"h", "o", "m", "e">>
    /\ Contains(Lower(bc_parts[2]), <<"b", "a", "g">>)
    /\ Len(Strip(bc_parts[3])) = 2

(***************************************************************************)
(* Row formatting: database.py line 96-158                                 *)
(***************************************************************************)
MaxIdLen == 2

SourceAcne == <<"a", "c", "n", "e", "_", "s", "t", "u", "d", "i", "o", "s">>
ProductUrlX == UrlJoin(BaseUrl, LinkA1x)
ProductUrlY == UrlJoin(BaseUrl, LinkA1y)
Price400 == <<"4", "0", "0", "C", "Z", "K">>

\* characters an external_id is made of: plain ones, the two JSON escapes
\* and one non-ASCII character
IdAlphabet == {"A", "1", "\"", "\\", "é"}

ExternalIds == SeqsUpTo(IdAlphabet, MaxIdLen) \ {<<>>}

\* products scraper.run() returns: source and product_url are set, the
\* detail fields may be None or empty
FormatProducts ==
    {[source |-> Str(SourceAcne), external_id |-> Str(e),
      merchant_name |-> Str(<<"A", "c", "n", "e">>), product_url |-> Str(u),
      image_url |-> Str(UrlY), brand |-> Str(<<"A", "c", "n", "e">>), title |-> Str(<<"T">>),
      gender |-> g, price |-> pr, currency |-> Str(<<"E", "U", "R">>), size |-> PyNone,
      second_hand |-> PyFalse, country |-> Str(<<"e", "u">>), category |-> PyNone,
      description |-> d, additional_images |-> PyNone,
      image_embedding |-> emb, info_embedding |-> PyList("finite")] :
        e \in ExternalIds, u \in {ProductUrlX, ProductUrlY},
        g \in {PyNone, Str(<<"m", "e", "n">>)}, pr \in {PyNone, Str(Price400)},
        d \in {PyNone, Str(<<>>), Str(<<"d">>)},
        emb \in {PyNone, PyList("finite"), PyList("nan")}}

\* hashlib.md5(product_url.encode('utf-8')).hexdigest()[:16]
Md5Hex16(u) ==
    CASE u = ProductUrlX -> <<"2", "7", "b", "e", "6", "4", "a", "c", "c", "2", "e", "9", "e", "e", "6", "0">>
      [] u = ProductUrlY -> <<"a", "0", "b", "5", "e", "b", "f", "a", "9", "b", "1", "c", "b", "4", "d", "a">>

\* line 102-109
ProductId(p) ==
    IF p.product_url.text # <<>>
    THEN p.source.text \o <<"_">> \o Md5Hex16(p.product_url.text)
    ELSE p.external_id.text

\* json.dumps of one character of a string (ensure_ascii)
JsonEscapeChar(c) ==
    CASE c = "\"" -> <<"\\", "\"">>
      [] c = "\\" -> <<"\\", "\\">>
      [] c = "é"  -> <<"\\", "u", "0", "0", "e", "9">>
      [] OTHER    -> <<c>>

RECURSIVE JsonEscape(_)
JsonEscape(x) ==
    IF x = <<>> THEN <<>> ELSE JsonEscapeChar(Head(x)) \o JsonEscape(Tail(x))

\* json.dumps of a str or None
JsonDumpsValue(v) ==
    IF v.type = "NoneType" THEN <<"n", "u", "l", "l">>
    ELSE <<"\"">> \o JsonEscape(v.text) \o <<"\"">>

RECURSIVE JsonDumpsMembers(_)
JsonDumpsMembers(items) ==
    IF items = <<>> THEN <<>>
    ELSE <<"\"">> \o items[1][1] \o <<"\"", ":", " ">> \o JsonDumpsValue(items[1][2])
         \o (IF Len(items) > 1 THEN <<",", " ">> ELSE <<>>)
         \o JsonDumpsMembers(Tail(items))

\* json.dumps(dict), the dict given as its items in insertion order
JsonDumps(items) == <<"{">> \o JsonDumpsMembers(items) \o <<"}">>

\* line 112-120
MetadataText(p) ==
    JsonDumps(<< <<<<"s", "o", "u", "r", "c", "e">>, p.source>>,
                 <<<<"c", "o", "u", "n", "t", "r", "y">>, p.country>>,
                 <<<<"o", "r", "i", "g", "i", "n", "a", "l", "_", "c", "u", "r", "r", "e", "n", "c", "y">>, p.currency>>,
                 <<<<"e", "x", "t", "e", "r", "n", "a", "l", "_", "i", "d">>, p.external_id>>,
                 <<<<"m", "e", "r", "c", "h", "a", "n", "t", "_", "n", "a", "m", "e">>, p.merchant_name>>,
                 <<<<"s", "c", "r", "a", "p", "e", "d", "_", "a", "t">>, PyNone>> >>)

\* line 122-134: _valid_embedding
ValidRowEmbedding(emb) ==
    IF emb.type # "list" THEN PyNone
    ELSE IF emb.text # <<"finite">> THEN PyNone
    ELSE emb

\* line 137-155: the dict before the filter, as items
Formatted(p) ==
    << <<"id", Str(ProductId(p))>>,
       <<"source", p.source>>,
       <<"product_url", p.product_url>>,
       <<"image_url", p.image_url>>,
       <<"brand", p.brand>>,
       <<"title", p.title>>,
       <<"description", p.description>>,
       <<"category", p.category>>,
       <<"gender", p.gender>>,
       <<"metadata", Str(MetadataText(p))>>,
       <<"size", p.size>>,
       <<"second_hand", p.second_hand>>,
       <<"country", p.country>>,
       <<"price", p.price>>,
       <<"additional_images", p.additional_images>>,
       <<"image_embedding", ValidRowEmbedding(p.image_embedding)>>,
       <<"info_embedding", ValidRowEmbedding(p.info_embedding)>> >>

\* line 158: the test an item has to pass
KeptInRow_NotNone(v) == v.type # "NoneType"

KeptInRow(v) == v.type # "NoneType" /\ v # Str(<<>>)

\* _format_product_for_db(product), line 96-158
FormattedRow(p) ==
    {Formatted(p)[i] : i \in {j \in 1..Len(Formatted(p)) : KeptInRow(Formatted(p)[j][2])}}

FormatProductForDbCall ==
    /\ product # NoProduct
    /\ prev_row = {}
    /\ row' = FormattedRow(product)
    /\ prev_row' = row
    /\ UNCHANGED product
    /\ UNCHANGED notFormat

FormatNext == FormatProductForDbCall

FormatInit ==
    /\ product \in FormatProducts
    /\ row = {}
    /\ prev_row = {}

FormatSpecInit ==
    SyncIdle /\ ImageIdle /\ PriceIdle /\ ClassifyIdle /\ EmbedIdle /\ ListingIdle
    /\ BreadcrumbIdle /\ FormatInit /\ SiteIdle

SpecFormat == FormatSpecInit /\ [][FormatNext]_vars

(***************************************************************************)
(* Claims about row formatting (checked under SpecFormat)                  *)
(***************************************************************************)
HasKey(r, k) == \E it \in r : it[1] = k
RowGet(r, k) == (CHOOSE it \in r : it[1] = k)[2]

\* the character a \uXXXX escape stands for
UnicodeChar(hex) == IF hex = <<"0", "0", "e", "9">> THEN "é" ELSE "?"

\* json.loads of a string literal whose body starts at position j
RECURSIVE ReadString(_, _, _)
ReadString(t, j, acc) ==
    IF t[j] = "\"" THEN [val |-> acc, next |-> j + 1]
    ELSE IF t[j] = "\\"
         THEN IF t[j + 1] = "u"
              THEN ReadString(t, j + 6, Append(acc, UnicodeChar(SubSeq(t, j + 2, j + 5))))
              ELSE ReadString(t, j + 2, Append(acc, t[j + 1]))
    ELSE ReadString(t, j + 1, Append(acc, t[j]))

\* json.loads of the members of an object, from the key that starts at i
RECURSIVE ReadMembers(_, _)
ReadMembers(t, i) ==
    LET key == ReadString(t, i + 1, <<>>)
        at  == key.next + 2
        str == ReadString(t, at + 1, <<>>)
        val == IF t[at] = "\"" THEN Str(str.val) ELSE PyNone
        end == IF t[at] = "\"" THEN str.next ELSE at + 4
    IN  {<<key.val, val>>}
        \cup (IF t[end] = "," THEN ReadMembers(t, end + 2) ELSE {})

\* json.loads(text) of an object of strings and nulls
JsonLoads(t) == ReadMembers(t, 2)

\* products that differ from p in anything but source and product_url
SameKeyProducts(p) ==
    {[p EXCEPT !.external_id = e, !.price = pr, !.description = d, !.title = ti] :
        e \in {PyNone, Str(<<"A">>)}, pr \in {PyNone, Str(Price400)},
        d \in {PyNone, Str(<<"d">>)}, ti \in {Str(<<"T">>), Str(<<"U">>)}}

\* C24: for a product with non-empty source, product_url and price text the
\* row carries exactly these three values and its metadata parses back to
\* the product's external_id; the row id is determined by source and
\* product_url and is the same on every call; no row field is None or ''.
C24_RowKeepsIdentity ==
    row # {}
    => /\ \A it \in row : it[2] # PyNone /\ it[2] # Str(<<>>)
       /\ RowGet(row, "id") = Str(product.source.text \o <<"_">>
                                    \o Md5Hex16(product.product_url.text))
       /\ \A q \in SameKeyProducts(product) : Str(ProductId(q)) = RowGet(row, "id")
       /\ prev_row # {} => RowGet(prev_row, "id") = RowGet(row, "id")
       /\ RowGet(row, "source") = product.source
       /\ RowGet(row, "product_url") = product.product_url
       /\ product.price.type = "str" /\ product.price.text # <<>>
          => HasKey(row, "price") /\ RowGet(row, "price") = product.price
       /\ RowGet(JsonLoads(RowGet(row, "metadata").text), <<"e", "x", "t", "e", "r", "n", "a", "l", "_", "i", "d">>)
             = product.external_id

\* a second call on a product whose external_id needs every escape and
\* whose description is '' and gender None
C24_Witness ==
    /\ prev_row # {}
    /\ product.external_id.text = <<"\"", "é">>
    /\ product.description = Str(<<>>)
    /\ product.gender = PyNone
    /\ product.price = Str(Price400)
    /\ ~HasKey(row, "description")

(***************************************************************************)
(* One run of the command line: cli.py, base.py line 104-113               *)
(***************************************************************************)
MaxSiteTiles == 2

\* site_config.get('source', site_name) of the one site get_scraper admits
SiteSource == "acne_studios"

\* names of the categories the site is configured with
SiteCategories == <<"men", "women">>

\* product pages the listing pages link to in this run
ListedUrls == {"A", "B"}

\* a tile of a listing page: the product it links to and whether
\* scrape_product_details gives a dict for it
SiteTiles == [product_url : ListedUrls, detail_ok : BOOLEAN]

SitePages == SeqsUpTo(SiteTiles, MaxSiteTiles)

\* acne_studios.py line 186-198: the tiles whose details came back
CategoryExtracted_KeepFailed(page) == [i \in 1..Len(page) |-> page[i].product_url]

CategoryExtracted(page) ==
    LET kept == SelectSeq(page, LAMBDA t : t.detail_ok)
    IN  [i \in 1..Len(kept) |-> kept[i].product_url]

\* acne_studios.py line 86-93: first occurrence of each external_id (which
\* product_url determines)
RECURSIVE FirstOccurrences(_, _)
FirstOccurrences(urls, seen) ==
    IF urls = <<>> THEN <<>>
    ELSE IF Head(urls) \in seen THEN FirstOccurrences(Tail(urls), seen)
    ELSE <<Head(urls)>> \o FirstOccurrences(Tail(urls), seen \cup {Head(urls)})

\* scrape_category for one configured category
CategoryProducts(page) ==
    LET urls == FirstOccurrences(CategoryExtracted(page), {})
    IN  [i \in 1..Len(urls) |-> Product(SiteSource, urls[i])]

\* BaseScraper.run, base.py line 104-113, from category c on
RECURSIVE Run(_, _)
Run(pgs, c) ==
    IF c > Len(pgs) THEN <<>>
    ELSE CategoryProducts(pgs[c]) \o Run(pgs, c + 1)

\* main line 84-88: load_sites_config raised
ConfigLoadFails ==
    /\ cpc = "start"
    /\ exit_status' = "1"
    /\ cpc' = "exit_88"
    /\ UNCHANGED <<site_pages, all_products, sync>>
    /\ UNCHANGED notSite

\* scrape_site line 36-40: scraper.run() returned
ScraperRun(pgs, sy) ==
    /\ cpc = "start"
    /\ site_pages' = pgs
    /\ all_products' = Run(pgs, 1)
    /\ sync' = sy
    /\ cpc' = "scraped"
    /\ UNCHANGED exit_status
    /\ UNCHANGED notSite

\* scrape_site line 52-54: get_scraper or run raised, [] is returned
ScrapeSiteFails ==
    /\ cpc = "start"
    /\ cpc' = "returned"
    /\ UNCHANGED <<site_pages, all_products, sync, exit_status>>
    /\ UNCHANGED notSite

\* scrape_site line 42-45: sync_products(source, products) is called ...
InSiteSync == cpc = "scraped" /\ sync

SiteSyncBegin == InSiteSync /\ pc = "idle" /\ SyncBegin(SiteSource, all_products)

\* ... and takes its steps
SiteUpsertOk   == InSiteSync /\ UpsertOk
SiteUpsertFail == InSiteSync /\ UpsertFail
SiteDeleteOk   == InSiteSync /\ DeleteOk
SiteDeleteFail == InSiteSync /\ DeleteFail

\* scrape_site line 45-50: the result is logged and products returned
ScrapeSiteReturns ==
    /\ cpc = "scraped"
    /\ sync => pc = "returned"
    /\ cpc' = "returned"
    /\ UNCHANGED <<site_pages, all_products, sync, exit_status>>
    /\ UNCHANGED notSite

\* main line 121-123: the loop is over, main returns
MainReturns ==
    /\ cpc = "returned"
    /\ exit_status' = "0"
    /\ cpc' = "end"
    /\ UNCHANGED <<site_pages, all_products, sync>>
    /\ UNCHANGED notSite

SiteNext ==
    \/ ConfigLoadFails
    \/ /\ cpc = "start"
       /\ \E pgs \in [1..Len(SiteCategories) -> SitePages], sy \in BOOLEAN :
             ScraperRun(pgs, sy)
    \/ ScrapeSiteFails
    \/ SiteSyncBegin
    \/ SiteUpsertOk
    \/ SiteUpsertFail
    \/ SiteDeleteOk
    \/ SiteDeleteFail
    \/ ScrapeSiteReturns
    \/ MainReturns

\* the process starts on a store that holds rows of earlier runs
SiteInit ==
    /\ store = OldRows
    /\ pc = "idle"
    /\ src = None
    /\ batch = <<>>
    /\ result = None
    /\ upserted = "none"
    /\ deleteIssued = FALSE
    /\ pre = {}
    /\ stale = {}
    /\ site_pages = <<>>
    /\ all_products = <<>>
    /\ sync = FALSE
    /\ cpc = "start"
    /\ exit_status = None

SiteSpecInit ==
    SiteInit /\ ImageIdle /\ PriceIdle /\ ClassifyIdle /\ EmbedIdle /\ ListingIdle
    /\ BreadcrumbIdle /\ FormatIdle

SpecSite == SiteSpecInit /\ [][SiteNext]_vars

(***************************************************************************)
(* Claims about a run of the command line (checked under SpecSite)         *)
(***************************************************************************)
ConfigLoadFailed == cpc = "exit_88"
PersistenceFailed == sync /\ pc = "returned" /\ result = FALSE

\* C23 (as the claim states it): the process exits non-zero when
\* sync_products reported a persistence failure or the configuration could
\* not be loaded, and with status zero when only fetch, extraction, policy
\* or embedding failures occurred.
C23_ExitStatusReportsPersistence ==
    exit_status # None
    => (exit_status # "0" <=> (ConfigLoadFailed \/ PersistenceFailed))

\* C26 (as the claim states it): the list run() returns, which is the batch
\* of sync_products, holds no two records with the same product_url, also
\* when a product is listed in more than one configured category.
C26_RunBatchHasUniqueUrls ==
    cpc \in {"scraped", "returned", "end"}
    => \A i, j \in 1..Len(all_products) :
          all_products[i].product_url = all_products[j].product_url => i = j

\* product pages of which some tile's details failed and no tile's came back
SkippedUrls ==
    {u \in ListedUrls :
        /\ \E c \in 1..Len(site_pages) : \E i \in 1..Len(site_pages[c]) :
              site_pages[c][i].product_url = u /\ ~site_pages[c][i].detail_ok
        /\ \A c \in 1..Len(site_pages) : \A i \in 1..Len(site_pages[c]) :
              site_pages[c][i].product_url = u => ~site_pages[c][i].detail_ok}

\* C27: a product that is stored and whose detail fetch fails in this run,
\* while another product of the source is scraped, has lost its row once the
\* sync_products call that follows has completed.
C27_SkippedProductRetired ==
    (/\ InSiteSync \/ (sync /\ cpc \in {"returned", "end"})
     /\ pc = "returned"
     /\ result = TRUE
     /\ all_products # <<>>)
    => \A u \in SkippedUrls :
          /\ \A i \in 1..Len(batch) : batch[i].product_url # u
          /\ u \notin UrlsOf(store, SiteSource)

\* A was stored, its detail fetch failed, B was scraped: the completed sync
\* deleted A's row
C27_Witness ==
    /\ cpc = "end"
    /\ sync
    /\ result = TRUE
    /\ "A" \in SkippedUrls
    /\ "A" \in UrlsOf(pre, SiteSource)
    /\ ScrapedProductUrls(batch) = {"B"}
    /\ "A" \notin UrlsOf(store, SiteSource)

====
